---- MODULE Spec2Model ----
(***************************************************************************)
(* Auto-delivery fulfillment engine of xianyu-backend.                     *)
(*                                                                         *)
(* The persistence operations are those of DBManager (db_manager.py): each *)
(* opens its own session, so each is its own transaction, made of a read   *)
(* (SELECT) and, later, a write (UPDATE/INSERT + commit).  The executor's  *)
(* orchestration (fulfill) follows section 4.3 of the design document.     *)
(*                                                                         *)
(* A text value is a sequence of one-character strings; NULL is Null.      *)
(***************************************************************************)
EXTENDS Integers, Sequences, FiniteSets, TLC

VARIABLES
    cards,      \* cards table: card id -> row
    rules,      \* delivery_rules table: rule id -> row
    orders,     \* orders table (the idempotency ledger): sequence of rows
    cookies,    \* cookies table: sequence of rows
    proc,       \* per worker: position inside fulfill and its locals
    outcomes,   \* per invocation, in arrival order: its FulfillmentOutcome
    handoffs,   \* onFulfilled hand-offs triggered so far (a set)
    popped,     \* stock lines whose removal has been committed (a set)
    calls,      \* fulfill invocations started
    faults,     \* persistence errors raised so far
    restocks,   \* update_card(data_content=...) calls made
    event,      \* the inbound event being processed and its stage
    bound,      \* the limits of the run, fixed by the initial state
    query,      \* last matcher query
    result      \* last matcher result (ranked list of joined rows)

vars == <<cards, rules, orders, cookies, proc, outcomes, handoffs, popped, calls,
          faults, restocks, bound, event, query, result>>

-----------------------------------------------------------------------------
(* Bounds *)

\* concurrent runs (Spec)
NProc == 2
MaxCalls == 2
MaxFaults == 1
\* sequential runs (SpecSeq)
SeqCalls == 3
SeqFaults == 1
MaxRestock == 1
\* runs with repeated persistence errors (SpecFault)
FaultCalls == 2
FaultFaults == 2
\* catalogs of the matcher runs (SpecMatch)
MaxCards == 2
MaxRules == 2
\* catalogs of the ranking runs (SpecRank)
MaxRankRules == 2
\* invocations of the runs on the delivery counter (SpecCount)
CountCalls == 3
\* runs with delayed hand-offs (SpecDelay): invocations, persistence errors
\* and the delay of both cards in seconds
DelayCalls == 3
DelayFaults == 1
DelaySeconds == 2
\* calls of the runs on the administration of tables and orders (SpecAdmin)
AdminCalls == 2
\* calls of the runs on consume_batch_data (SpecStock)
StockCalls == 4

Null == "<null>"
NL == "\n"
SP == " "

Procs == 1..NProc
\* order ids of the concurrent runs and of the sequential runs
KeySeq == <<"k1", "k2">>
SeqKeySeq == <<"k1", "k2", "k3">>

-----------------------------------------------------------------------------
(* Python str helpers used by consume_batch_data *)

RECURSIVE split(_)
\* str.split('\n')
split(s) ==
    IF \E i \in 1..Len(s) : s[i] = NL
    THEN LET i == CHOOSE i \in 1..Len(s) :
                     s[i] = NL /\ \A j \in 1..(i - 1) : s[j] # NL
         IN  <<SubSeq(s, 1, i - 1)>> \o split(SubSeq(s, i + 1, Len(s)))
    ELSE <<s>>

RECURSIVE strip(_)
\* str.strip()
strip(s) ==
    IF s = <<>> THEN s
    ELSE IF Head(s) \in {SP, NL} THEN strip(Tail(s))
    ELSE IF s[Len(s)] \in {SP, NL} THEN strip(SubSeq(s, 1, Len(s) - 1))
    ELSE s

RECURSIVE join(_)
\* '\n'.join(lines)
join(lines) ==
    IF lines = <<>> THEN <<>>
    ELSE IF Len(lines) = 1 THEN lines[1]
    ELSE lines[1] \o <<NL>> \o join(Tail(lines))

\* mutant: blank lines are kept
StripNonBlank_KeepsBlank(ls) == [n \in 1..Len(ls) |-> strip(ls[n])]

RECURSIVE StripNonBlank(_)
\* [line.strip() for line in ... if line.strip()]
StripNonBlank(ls) ==
    IF ls = <<>> THEN <<>>
    ELSE IF strip(Head(ls)) = <<>> THEN StripNonBlank(Tail(ls))
    ELSE <<strip(Head(ls))>> \o StripNonBlank(Tail(ls))

-----------------------------------------------------------------------------
(* Optional values: None is <<>>, a value v is <<v>> *)

None == <<>>
Some(v) == <<v>>

-----------------------------------------------------------------------------
(* Catalog of the fulfillment runs: a data card with two stock lines and a  *)
(* text card, one rule on each.                                             *)

SqlTrue == "t"
SqlFalse == "f"

DataCard == [type |-> "data", enabled |-> TRUE, data_content |-> Some(<<"A", NL, "B">>),
             text_content |-> None, delay_seconds |-> 0,
             is_multi_spec |-> SqlFalse, spec_name |-> Null, spec_value |-> Null]

TextCard == [type |-> "text", enabled |-> TRUE, data_content |-> None,
             text_content |-> Some(<<"T">>), delay_seconds |-> 5,
             is_multi_spec |-> SqlFalse, spec_name |-> Null, spec_value |-> Null]

Candidates == {<<>>, <<1>>, <<2, 1>>}
NonEmptyCandidates == {<<1>>, <<2, 1>>}
SeqCandidates == {<<>>, <<1>>}
RestockContents == {<<"C">>, <<SP, NL>>}
SeqStocks == {Some(<<"A", NL, "B">>), Some(<<SP, "A", SP, NL, NL, "B", NL>>),
              Some(<<>>), None}

-----------------------------------------------------------------------------
(* DBManager persistence operations *)

\* mutant: order_id carries no uniqueness constraint
OrderPrimaryKeyFree_Unconstrained(tbl, order_id) == TRUE

\* Column(String, primary_key=True): the INSERT of a second row with the
\* same order_id raises IntegrityError.
OrderPrimaryKeyFree(tbl, order_id) ==
    \A i \in 1..Len(tbl) : tbl[i].order_id # order_id

\* session.query(Order).filter_by(order_id=order_id).first()
OrderRow(tbl, order_id) ==
    IF \E i \in 1..Len(tbl) : tbl[i].order_id = order_id
    THEN Some(tbl[CHOOSE i \in 1..Len(tbl) : tbl[i].order_id = order_id])
    ELSE None

\* get_order_by_id: the row, or None; None as well when the query raises
get_order_by_id(tbl, order_id, err) ==
    IF err THEN None ELSE OrderRow(tbl, order_id)

\* mutant: the update branch assigns every argument, None included
UpdateOrderFields_AssignAll(row, args) ==
    [order_id |-> row.order_id, item_id |-> args.item_id,
     order_status |-> args.order_status, cookie_id |-> args.cookie_id]

\* insert_or_update_order, the branch on `existing`: the fields whose
\* argument is not None are overwritten
UpdateOrderFields(row, args) ==
    [order_id |-> row.order_id,
     item_id |-> IF args.item_id # Null THEN args.item_id ELSE row.item_id,
     order_status |-> IF args.order_status # Null THEN args.order_status
                      ELSE row.order_status,
     cookie_id |-> IF args.cookie_id # Null THEN args.cookie_id ELSE row.cookie_id]

\* insert_or_update_order, the else branch: Order(...)
NewOrder(args) ==
    [order_id |-> args.order_id, item_id |-> args.item_id,
     order_status |-> IF args.order_status # Null THEN args.order_status
                      ELSE "unknown",
     cookie_id |-> args.cookie_id]

\* insert_or_update_order from `if existing:` to the return: `existing` is
\* what the earlier SELECT of this session saw, tbl is the table at commit.
\* The result is <<returned value, table after>>.
insert_or_update_order_commit(tbl, existing, args, err) ==
    IF err THEN <<FALSE, tbl>>
    ELSE IF existing
    THEN <<TRUE, [i \in 1..Len(tbl) |->
                    IF tbl[i].order_id = args.order_id
                    THEN UpdateOrderFields(tbl[i], args) ELSE tbl[i]]>>
    ELSE IF OrderPrimaryKeyFree(tbl, args.order_id)
    THEN <<TRUE, Append(tbl, NewOrder(args))>>
    ELSE <<FALSE, tbl>>

\* consume_batch_data, the SELECT and the two early returns: the list
\* `lines`, or None when the call returns None here
consume_batch_data_lines(cs, card_id, err) ==
    IF err THEN None
    ELSE IF card_id \notin DOMAIN cs \/ cs[card_id].type # "data" THEN None
    ELSE IF cs[card_id].data_content = None \/ cs[card_id].data_content = Some(<<>>)
    THEN None
    ELSE LET lines == StripNonBlank(split(cs[card_id].data_content[1]))
         IN  IF lines = <<>> THEN None ELSE Some(lines)

\* the stock lines of a data_content value
NonBlankLines(dc) == IF dc = None THEN <<>> ELSE StripNonBlank(split(dc[1]))

\* mutant: the last line is returned
consume_batch_data_first_Last(lines) == lines[Len(lines)]

\* consume_batch_data, first_line
consume_batch_data_first(lines) == lines[1]

\* mutant: the first line is written back with the rest
consume_batch_data_commit_KeepsFirst(cs, card_id, lines) ==
    [cs EXCEPT ![card_id].data_content = Some(join(lines))]

\* consume_batch_data, card.data_content = '\n'.join(remaining_lines); commit
consume_batch_data_commit(cs, card_id, lines) ==
    [cs EXCEPT ![card_id].data_content = Some(join(Tail(lines)))]

\* increment_delivery_times, rule.delivery_times = (read value or 0) + 1; commit
increment_delivery_times_commit(rs, rule_id, read) ==
    [rs EXCEPT ![rule_id].delivery_times = read + 1]

\* update_card(card_id, data_content=...)
update_card_data_content(cs, card_id, data_content) ==
    [cs EXCEPT ![card_id].data_content = Some(data_content)]

-----------------------------------------------------------------------------
(* RuleMatcher: get_delivery_rules_by_keyword_and_spec over the cards and    *)
(* delivery_rules tables.  The card's name is not modelled: every card is    *)
(* taken to have a name of its own.                                          *)

RECURSIVE Like(_, _)
\* SQL: s LIKE p, where % matches any run of characters and _ any one
Like(s, p) ==
    IF p = <<>> THEN s = <<>>
    ELSE IF Head(p) = "%"
    THEN Like(s, Tail(p)) \/ (s # <<>> /\ Like(Tail(s), p))
    ELSE IF s = <<>> THEN FALSE
    ELSE (Head(p) = "_" \/ Head(p) = Head(s)) /\ Like(Tail(s), Tail(p))

\* :kw LIKE '%' || dr.keyword || '%'
KeywordInText(kw, keyword) == Like(kw, <<"%">> \o keyword \o <<"%">>)

\* dr.keyword LIKE '%' || :kw || '%'
TextInKeyword(kw, keyword) == Like(keyword, <<"%">> \o kw \o <<"%">>)

\* the CASE of the ORDER BY; LENGTH(dr.keyword) / 2 is an integer division
RankScore(kw, keyword) ==
    IF KeywordInText(kw, keyword) THEN Len(keyword) ELSE Len(keyword) \div 2

\* mutant: the WHERE clause does not test c.enabled
MatchingRule_AnyCard(rs, cs, kw, id) ==
    /\ rs[id].enabled
    /\ rs[id].card_id \in DOMAIN cs
    /\ (KeywordInText(kw, rs[id].keyword) \/ TextInKeyword(kw, rs[id].keyword))

\* FROM delivery_rules dr LEFT JOIN cards c ON dr.card_id = c.id
\* WHERE dr.enabled = true AND c.enabled = true AND (... LIKE ... OR ... LIKE ...)
MatchingRule(rs, cs, kw, id) ==
    /\ rs[id].enabled
    /\ rs[id].card_id \in DOMAIN cs
    /\ cs[rs[id].card_id].enabled
    /\ (KeywordInText(kw, rs[id].keyword) \/ TextInKeyword(kw, rs[id].keyword))

\* the first query's rows:
\* AND c.is_multi_spec = true AND c.spec_name = :sn AND c.spec_value = :sv
SpecPassIds(rs, cs, kw, sn, sv) ==
    {id \in DOMAIN rs :
        /\ MatchingRule(rs, cs, kw, id)
        /\ cs[rs[id].card_id].is_multi_spec = SqlTrue
        /\ cs[rs[id].card_id].spec_name # Null /\ cs[rs[id].card_id].spec_name = sn
        /\ cs[rs[id].card_id].spec_value # Null /\ cs[rs[id].card_id].spec_value = sv}

\* mutant: the fallback query does not look at is_multi_spec
FallbackPassIds_AnyCard(rs, cs, kw) ==
    {id \in DOMAIN rs : MatchingRule(rs, cs, kw, id)}

\* the second query's rows:
\* AND (c.is_multi_spec = false OR c.is_multi_spec IS NULL)
FallbackPassIds(rs, cs, kw) ==
    {id \in DOMAIN rs :
        /\ MatchingRule(rs, cs, kw, id)
        /\ cs[rs[id].card_id].is_multi_spec \in {SqlFalse, Null}}

\* ORDER BY CASE ... END DESC, dr.delivery_times ASC: the orders in which
\* the database may return the rows `ids`
RankedOrders(rs, kw, ids) ==
    {f \in [1..Cardinality(ids) -> ids] :
        /\ \A m, n \in 1..Cardinality(ids) : m # n => f[m] # f[n]
        /\ \A m, n \in 1..Cardinality(ids) : m < n =>
              \/ RankScore(kw, rs[f[m]].keyword) > RankScore(kw, rs[f[n]].keyword)
              \/ /\ RankScore(kw, rs[f[m]].keyword) = RankScore(kw, rs[f[n]].keyword)
                 /\ rs[f[m]].delivery_times <= rs[f[n]].delivery_times}

\* _parse_delivery_rules_rows, one row
ParseRow(rs, cs, id) ==
    [id |-> id, keyword |-> rs[id].keyword, card_id |-> rs[id].card_id,
     enabled |-> rs[id].enabled, delivery_times |-> rs[id].delivery_times,
     card_type |-> cs[rs[id].card_id].type,
     card_enabled |-> cs[rs[id].card_id].enabled,
     card_delay_seconds |-> cs[rs[id].card_id].delay_seconds,
     is_multi_spec |-> (cs[rs[id].card_id].is_multi_spec = SqlTrue),
     spec_name |-> cs[rs[id].card_id].spec_name,
     spec_value |-> cs[rs[id].card_id].spec_value]

ParseRows(rs, cs, f) == [n \in DOMAIN f |-> ParseRow(rs, cs, f[n])]

\* Python truth value of an Optional[str]
Truthy(x) == x # Null /\ x # ""

\* mutant: the rows of both queries are returned together
get_delivery_rules_by_keyword_and_spec_Merged(rs, cs, kw, sn, sv, err) ==
    IF err THEN {<<>>}
    ELSE {ParseRows(rs, cs, f) :
            f \in RankedOrders(rs, kw,
                     (IF Truthy(sn) /\ Truthy(sv) THEN SpecPassIds(rs, cs, kw, sn, sv)
                      ELSE {}) \cup FallbackPassIds(rs, cs, kw))}

\* get_delivery_rules_by_keyword_and_spec: the lists the call may return
get_delivery_rules_by_keyword_and_spec(rs, cs, kw, sn, sv, err) ==
    IF err THEN {<<>>}
    ELSE IF Truthy(sn) /\ Truthy(sv) /\ SpecPassIds(rs, cs, kw, sn, sv) # {}
    THEN {ParseRows(rs, cs, f) : f \in RankedOrders(rs, kw, SpecPassIds(rs, cs, kw, sn, sv))}
    ELSE {ParseRows(rs, cs, f) : f \in RankedOrders(rs, kw, FallbackPassIds(rs, cs, kw))}

\* ORDER BY CASE ... END DESC, dr.id ASC: the order of the rows `ids`
RankedById(rs, kw, ids) ==
    {f \in [1..Cardinality(ids) -> ids] :
        /\ \A m, n \in 1..Cardinality(ids) : m # n => f[m] # f[n]
        /\ \A m, n \in 1..Cardinality(ids) : m < n =>
              \/ RankScore(kw, rs[f[m]].keyword) > RankScore(kw, rs[f[n]].keyword)
              \/ /\ RankScore(kw, rs[f[m]].keyword) = RankScore(kw, rs[f[n]].keyword)
                 /\ f[m] < f[n]}

\* get_delivery_rules_by_keyword: the list the call returns
get_delivery_rules_by_keyword(rs, cs, kw, err) ==
    IF err THEN {<<>>}
    ELSE {ParseRows(rs, cs, f) :
            f \in RankedById(rs, kw, {id \in DOMAIN rs : MatchingRule(rs, cs, kw, id)})}

\* update_delivery_rule(rule_id, keyword, enabled): an argument that is None
\* leaves its column alone
update_delivery_rule(rs, rule_id, keyword, enabled) ==
    IF rule_id \notin DOMAIN rs THEN rs
    ELSE [rs EXCEPT ![rule_id] =
            [@ EXCEPT !.keyword = IF keyword # None THEN keyword[1] ELSE @,
                      !.enabled = IF enabled # None THEN enabled[1] ELSE @]]

\* update_card(card_id, enabled=...)
update_card_enabled(cs, card_id, enabled) ==
    IF card_id \notin DOMAIN cs THEN cs
    ELSE [cs EXCEPT ![card_id].enabled = enabled]

\* create_card: a multi-spec card must name its spec
create_card_accepts(a) ==
    a.is_multi_spec => (Truthy(a.spec_name) /\ Truthy(a.spec_value))

\* create_card: Card(...)
create_card_row(a) ==
    [type |-> "text", enabled |-> a.enabled, data_content |-> None,
     text_content |-> Some(<<"T">>), delay_seconds |-> 0,
     is_multi_spec |-> IF a.is_multi_spec THEN SqlTrue ELSE SqlFalse,
     spec_name |-> a.spec_name, spec_value |-> a.spec_value]

\* create_delivery_rule: DeliveryRule(...); card_id is a foreign key
create_delivery_rule_row(keyword, card_id, enabled) ==
    [keyword |-> keyword, card_id |-> card_id, enabled |-> enabled, delivery_times |-> 0]

\* a row written before cards.is_multi_spec existed
LegacyCard ==
    [type |-> "text", enabled |-> TRUE, data_content |-> None,
     text_content |-> Some(<<"T">>), delay_seconds |-> 0,
     is_multi_spec |-> Null, spec_name |-> Null, spec_value |-> Null]

CardArgs ==
    {[enabled |-> TRUE, is_multi_spec |-> FALSE, spec_name |-> Null, spec_value |-> Null],
     [enabled |-> TRUE, is_multi_spec |-> TRUE, spec_name |-> "color", spec_value |-> "red"],
     [enabled |-> TRUE, is_multi_spec |-> TRUE, spec_name |-> "color", spec_value |-> "blue"],
     [enabled |-> FALSE, is_multi_spec |-> TRUE, spec_name |-> "color", spec_value |-> "red"],
     [enabled |-> TRUE, is_multi_spec |-> TRUE, spec_name |-> "color", spec_value |-> ""]}

RuleKeywords == {<<"a">>, <<"a", "b">>}
Texts == {<<"b">>, <<"a", "b", "a">>}
QuerySpecs == {<<Null, Null>>, <<"color", "red">>, <<"color", "blue">>, <<"", "red">>}

\* the ranking runs: "s", "j", "k", "y", "m" stand for the characters of
\* "手机壳" (s j k), "手机" (s j) and "有手机壳吗" (y s j k m)
GenericCardArgs ==
    [enabled |-> TRUE, is_multi_spec |-> FALSE, spec_name |-> Null, spec_value |-> Null]
RankKeywords == {<<"a">>, <<"a", "b", "c", "d">>, <<"_">>, <<"s", "j", "k">>, <<"s", "j">>}
RankTexts == {<<"a">>, <<>>, <<"y", "s", "j", "k", "m">>}
RankSpecs == {<<Null, Null>>, <<"color", "red">>}
RuleUpdates == {<<None, Some(FALSE)>>, <<None, Some(TRUE)>>} \cup
               {<<Some(k), None>> : k \in RankKeywords}

-----------------------------------------------------------------------------
(* EventClassifier: the payment phrases, str(message) and _extract_order_id. *)
(* A text is a sequence of characters; the characters of the Chinese         *)
(* phrases are written in Latin letters, one token per character.            *)

\* Python: k in s, for two str
PyIn(k, s) ==
    \E i \in 1..(Len(s) + 1) : i + Len(k) - 1 <= Len(s) /\ SubSeq(s, i, i + Len(k) - 1) = k

\* _is_auto_delivery_trigger: auto_delivery_keywords
auto_delivery_keywords ==
    <<<<"[", "wo", "yi", "fu", "kuan", "dou", "deng", "dai", "ni", "fa", "huo", "]">>,
      <<"[", "yi", "fu", "kuan", "dou", "dai", "fa", "huo", "]">>,
      <<"wo", "yi", "fu", "kuan", "dou", "deng", "dai", "ni", "fa", "huo">>,
      <<"[", "jj", "de", "jq", "shi", "fa", "huo", "]">>>>

\* mutant: "awaiting payment" is taken for a payment
payment_indicators_WithUnpaid ==
    <<<<"wo", "yi", "fu", "kuan">>,
      <<"yi", "fu", "kuan", "dou", "dai", "fa", "huo">>,
      <<"deng", "dai", "ni", "fa", "huo">>,
      <<"dai", "fu", "kuan">>>>

\* the non-chat payment detection: payment_indicators
payment_indicators ==
    <<<<"wo", "yi", "fu", "kuan">>,
      <<"yi", "fu", "kuan", "dou", "dai", "fa", "huo">>,
      <<"deng", "dai", "ni", "fa", "huo">>,
      <<"T", "R", "A", "D", "E", "_", "P", "A", "I", "D", "_", "D", "O", "N", "E", "_",
        "S", "E", "L", "L", "E", "R">>>>

\* _is_auto_delivery_trigger(message)
is_auto_delivery_trigger(message) ==
    \E n \in DOMAIN auto_delivery_keywords : PyIn(auto_delivery_keywords[n], message)

\* any(kw in msg_str for kw in payment_indicators)
detect_payment_text(msg_str) ==
    \E n \in DOMAIN payment_indicators : PyIn(payment_indicators[n], msg_str)

\* Python values of an event: dict (a sequence of key/value items, in
\* insertion order), list, str, int and None; Exc stands for a raised
\* exception
PyDict(items) == [t |-> "dict", v |-> items]
Item(k, v) == [k |-> k, v |-> v]
PyList(elems) == [t |-> "list", v |-> elems]
PyStr(chars) == [t |-> "str", v |-> chars]
PyInt(digits) == [t |-> "int", v |-> digits]
PyNone == [t |-> "none", v |-> <<>>]
Exc == [t |-> "exc", v |-> <<>>]

Digits == {"0", "1", "2", "3", "4", "5", "6", "7", "8", "9"}

\* bool(v)
PyTruthy(v) ==
    CASE v.t = "none" -> FALSE
      [] v.t = "int" -> \E n \in DOMAIN v.v : v.v[n] # "0"
      [] OTHER -> v.v # <<>>

\* d.get(key, default); AttributeError when d is not a dict
Get(d, key, default) ==
    IF d.t # "dict" THEN Exc
    ELSE IF \E n \in DOMAIN d.v : d.v[n].k = key
    THEN d.v[CHOOSE n \in DOMAIN d.v : d.v[n].k = key].v
    ELSE default

RECURSIVE GetPath(_, _, _)
\* d.get(k1, {}).get(k2, {}) ... .get(kn, default)
GetPath(d, keys, default) ==
    IF d.t = "exc" THEN Exc
    ELSE IF Len(keys) = 1 THEN Get(d, keys[1], default)
    ELSE GetPath(Get(d, keys[1], PyDict(<<>>)), Tail(keys), default)

RECURSIVE Concat(_)
Concat(parts) == IF parts = <<>> THEN <<>> ELSE Head(parts) \o Concat(Tail(parts))

\* repr of a str inside single quotes: \ and ' are escaped
Escape(s) ==
    LET esc(n) == Cardinality({m \in 1..n : s[m] \in {"'", "\\"}})
    IN  [j \in 1..(Len(s) + esc(Len(s))) |->
            LET n == CHOOSE m \in DOMAIN s :
                        \/ m + esc(m) = j
                        \/ s[m] \in {"'", "\\"} /\ m + esc(m) - 1 = j
            IN  IF s[n] \in {"'", "\\"} /\ n + esc(n) - 1 = j THEN "\\" ELSE s[n]]

\* repr(s) of a str: double quotes when s holds ' and no ", single quotes otherwise
ReprStr(s) ==
    IF (\E n \in DOMAIN s : s[n] = "'") /\ ~(\E n \in DOMAIN s : s[n] = "\"")
    THEN <<"\"">> \o s \o <<"\"">>
    ELSE <<"'">> \o Escape(s) \o <<"'">>

RECURSIVE Repr(_)
\* str(message): the repr of a value
Repr(v) ==
    CASE v.t = "str" -> ReprStr(v.v)
      [] v.t = "int" -> v.v
      [] v.t = "none" -> <<"N", "o", "n", "e">>
      [] v.t = "list" ->
            <<"[">> \o Concat([n \in DOMAIN v.v |->
                          (IF n = 1 THEN <<>> ELSE <<",", " ">>) \o Repr(v.v[n])]) \o <<"]">>
      [] v.t = "dict" ->
            <<"{">> \o Concat([n \in DOMAIN v.v |->
                          (IF n = 1 THEN <<>> ELSE <<",", " ">>)
                          \o ReprStr(v.v[n].k) \o <<":", " ">> \o Repr(v.v[n].v)]) \o <<"}">>

RECURSIVE JsonText(_)
\* json.dumps(v) of dicts and ASCII strs
JsonText(v) ==
    CASE v.t = "str" -> <<"\"">> \o v.v \o <<"\"">>
      [] v.t = "int" -> v.v
      [] v.t = "list" ->
            <<"[">> \o Concat([n \in DOMAIN v.v |->
                          (IF n = 1 THEN <<>> ELSE <<",", " ">>) \o JsonText(v.v[n])]) \o <<"]">>
      [] v.t = "dict" ->
            <<"{">> \o Concat([n \in DOMAIN v.v |->
                          (IF n = 1 THEN <<>> ELSE <<",", " ">>)
                          \o <<"\"">> \o v.v[n].k \o <<"\"", ":", " ">>
                          \o JsonText(v.v[n].v)]) \o <<"}">>

\* the number of digits of s from position j on
DigitRun(s, j) ==
    IF j > Len(s) THEN 0
    ELSE LET stop == {n \in j..(Len(s) + 1) : n = Len(s) + 1 \/ s[n] \notin Digits}
         IN  (CHOOSE n \in stop : \A m \in stop : n <= m) - j

\* s has prefix p at position i
PrefixAt(s, p, i) == i + Len(p) - 1 <= Len(s) /\ SubSeq(s, i, i + Len(p) - 1) = p

\* re.search / re.findall(...)[0] of a pattern <one of prefixes>(\d{low,}) in
\* the str s: the digits of the leftmost match, None without a match
RegexDigits(s, prefixes, low) ==
    LET hits == {i \in DOMAIN s : \E p \in prefixes :
                    PrefixAt(s, p, i) /\ DigitRun(s, i + Len(p)) >= low}
    IN  IF hits = {} THEN None
        ELSE LET i == CHOOSE h \in hits : \A g \in hits : h <= g
                 p == CHOOSE q \in prefixes :
                         PrefixAt(s, q, i) /\ DigitRun(s, i + Len(q)) >= low
             IN  Some(SubSeq(s, i + Len(p), i + Len(p) + DigitRun(s, i + Len(p)) - 1))

\* r'orderId=(\d+)'
P_orderId_eq ==
    {<<"o", "r", "d", "e", "r", "I", "d", "=">>}
\* r'order_detail\?id=(\d+)' and r'order_detail\?id=(\d{10,})'
P_order_detail ==
    {<<"o", "r", "d", "e", "r", "_", "d", "e", "t", "a", "i", "l", "?", "i", "d", "=">>}
\* r'orderId[=:](\d{10,})'
P_orderId ==
    {<<"o", "r", "d", "e", "r", "I", "d", "=">>,
     <<"o", "r", "d", "e", "r", "I", "d", ":">>}
\* r'"id"\s*:\s*"?(\d{10,})"?', with at most one blank for each \s*
P_id ==
    {<<"\"", "i", "d", "\"", ":">>,
     <<"\"", "i", "d", "\"", ":", "\"">>,
     <<"\"", "i", "d", "\"", ":", " ">>,
     <<"\"", "i", "d", "\"", ":", " ", "\"">>,
     <<"\"", "i", "d", "\"", " ", ":">>,
     <<"\"", "i", "d", "\"", " ", ":", "\"">>,
     <<"\"", "i", "d", "\"", " ", ":", " ">>,
     <<"\"", "i", "d", "\"", " ", ":", " ", "\"">>}
\* r'bizOrderId[=:](\d{10,})'
P_bizOrderId ==
    {<<"b", "i", "z", "O", "r", "d", "e", "r", "I", "d", "=">>,
     <<"b", "i", "z", "O", "r", "d", "e", "r", "I", "d", ":">>}

\* the JSON documents the events carry
ButtonCard(url) ==
    PyDict(<<Item(<<"d", "x", "C", "a", "r", "d">>, PyDict(<<Item(<<"i", "t", "e", "m">>, PyDict(<<Item(<<"m", "a", "i", "n">>,
        PyDict(<<Item(<<"e", "x", "C", "o", "n", "t", "e", "n", "t">>, PyDict(<<Item(<<"b", "u", "t", "t", "o", "n">>,
            PyDict(<<Item(<<"t", "a", "r", "g", "e", "t", "U", "r", "l">>, url)>>))>>))>>))>>))>>))>>)
MainCard(url) ==
    PyDict(<<Item(<<"d", "x", "C", "a", "r", "d">>, PyDict(<<Item(<<"i", "t", "e", "m">>, PyDict(<<Item(<<"m", "a", "i", "n">>,
        PyDict(<<Item(<<"t", "a", "r", "g", "e", "t", "U", "r", "l">>, url)>>))>>))>>))>>)

Url_orderId == PyStr(<<"h", "t", "t", "p", "s", ":", "/", "/", "e", ".", "c", "o", "m", "?",
                    "o", "r", "d", "e", "r", "I", "d", "=", "4", "5", "0", "2", "0", "6",
                    "1", "5", "7", "7">>)
Url_orderId_short == PyStr(<<"h", "t", "t", "p", "s", ":", "/", "/", "e", ".", "c", "o", "m",
                          "?", "o", "r", "d", "e", "r", "I", "d", "=", "1", "2", "3">>)
Url_order_detail == PyStr(<<"f", "l", "e", "a", "m", "a", "r", "k", "e", "t", ":", "/", "/", "o",
                      "r", "d", "e", "r", "_", "d", "e", "t", "a", "i", "l", "?", "i", "d",
                      "=", "4", "5", "0", "2", "0", "4", "8", "7", "9", "7">>)
Url_chat == PyStr(<<"f", "l", "e", "a", "m", "a", "r", "k", "e", "t", ":", "/", "/", "m", "e",
              "s", "s", "a", "g", "e", "_", "c", "h", "a", "t", "?", "i", "t", "e", "m",
              "I", "d", "=", "1", "0", "2", "1", "3", "2", "3", "7", "3", "5", "2", "7",
              "6">>)

JsonDocs ==
    <<ButtonCard(Url_orderId), ButtonCard(Url_orderId_short), ButtonCard(Url_chat),
      ButtonCard(PyInt(<<"7">>)), MainCard(Url_order_detail),
      PyDict(<<Item(<<"d", "x", "C", "a", "r", "d">>, PyStr(<<"x">>))>>), PyList(<<PyInt(<<"1">>)>>), PyInt(<<"4", "2">>)>>

\* json.loads(v): the document whose text v is; TypeError for a value that
\* is not a str, JSONDecodeError for a str that is no JSON text
json_loads(v) ==
    IF v.t # "str" THEN Exc
    ELSE IF \E n \in DOMAIN JsonDocs : JsonText(JsonDocs[n]) = v.v
    THEN JsonDocs[CHOOSE n \in DOMAIN JsonDocs : JsonText(JsonDocs[n]) = v.v]
    ELSE Exc

\* _extract_order_id, method 1 after json.loads: the button's targetUrl, then
\* the card's targetUrl; any exception leaves order_id None
extract_from_content(content_data) ==
    LET target_url == GetPath(content_data,
                              <<<<"d", "x", "C", "a", "r", "d">>, <<"i", "t", "e", "m">>, <<"m", "a", "i", "n">>, <<"e", "x", "C", "o", "n", "t", "e", "n", "t">>,
                                <<"b", "u", "t", "t", "o", "n">>, <<"t", "a", "r", "g", "e", "t", "U", "r", "l">>>>, PyStr(<<>>))
        main_target_url == GetPath(content_data,
                              <<<<"d", "x", "C", "a", "r", "d">>, <<"i", "t", "e", "m">>, <<"m", "a", "i", "n">>, <<"t", "a", "r", "g", "e", "t", "U", "r", "l">>>>, PyStr(<<>>))
        second == IF main_target_url.t = "exc" THEN None
                  ELSE IF ~PyTruthy(main_target_url) THEN None
                  ELSE IF main_target_url.t # "str" THEN None
                  ELSE RegexDigits(main_target_url.v, P_order_detail, 1)
    IN  IF content_data.t = "exc" \/ target_url.t = "exc" THEN None
        ELSE IF ~PyTruthy(target_url) THEN second
        ELSE IF target_url.t # "str" THEN None
        ELSE IF RegexDigits(target_url.v, P_orderId_eq, 1) # None
        THEN RegexDigits(target_url.v, P_orderId_eq, 1)
        ELSE second

\* mutant: the bizOrderId pattern is tried first
extract_from_string_BizFirst(message_str) ==
    IF RegexDigits(message_str, P_bizOrderId, 10) # None
    THEN RegexDigits(message_str, P_bizOrderId, 10)
    ELSE IF RegexDigits(message_str, P_orderId, 10) # None
    THEN RegexDigits(message_str, P_orderId, 10)
    ELSE IF RegexDigits(message_str, P_order_detail, 10) # None
    THEN RegexDigits(message_str, P_order_detail, 10)
    ELSE RegexDigits(message_str, P_id, 10)

\* _extract_order_id, method 3: the patterns over str(message), in order
extract_from_string(message_str) ==
    IF RegexDigits(message_str, P_orderId, 10) # None
    THEN RegexDigits(message_str, P_orderId, 10)
    ELSE IF RegexDigits(message_str, P_order_detail, 10) # None
    THEN RegexDigits(message_str, P_order_detail, 10)
    ELSE IF RegexDigits(message_str, P_id, 10) # None
    THEN RegexDigits(message_str, P_id, 10)
    ELSE RegexDigits(message_str, P_bizOrderId, 10)

\* _extract_order_id: content_json_str = message['1']['6']['3']['5']
content_json_str(message_1) ==
    IF message_1.t # "dict" THEN PyStr(<<>>)
    ELSE IF Get(message_1, <<"6">>, PyDict(<<>>)).t # "dict" THEN PyStr(<<>>)
    ELSE IF Get(Get(message_1, <<"6">>, PyDict(<<>>)), <<"3">>, PyDict(<<>>)).t # "dict"
    THEN PyStr(<<>>)
    ELSE Get(Get(Get(message_1, <<"6">>, PyDict(<<>>)), <<"3">>, PyDict(<<>>)),
             <<"5">>, PyStr(<<>>))

\* mutant: the patterns over str(message) are tried before the card
extract_order_id_try_StringFirst(message) ==
    IF Get(message, <<"1">>, PyDict(<<>>)).t = "exc" THEN Exc
    ELSE LET cjs == content_json_str(Get(message, <<"1">>, PyDict(<<>>)))
             first == extract_from_string(Repr(message))
             found == IF first # None THEN first
                      ELSE IF PyTruthy(cjs) THEN extract_from_content(json_loads(cjs))
                      ELSE None
         IN  IF found = None THEN PyNone ELSE PyStr(found[1])

\* _extract_order_id, the body of the outer try: the order id (a str), None,
\* or the exception raised by message.get on a value that is no dict
extract_order_id_try(message) ==
    IF Get(message, <<"1">>, PyDict(<<>>)).t = "exc" THEN Exc
    ELSE LET cjs == content_json_str(Get(message, <<"1">>, PyDict(<<>>)))
             first == IF PyTruthy(cjs) THEN extract_from_content(json_loads(cjs)) ELSE None
             found == IF first # None THEN first ELSE extract_from_string(Repr(message))
         IN  IF found = None THEN PyNone ELSE PyStr(found[1])

\* mutant: the exception of the outer try propagates
extract_order_id_Raising(message) == extract_order_id_try(message)

\* _extract_order_id(message): `except Exception: return None`
extract_order_id(message) ==
    IF extract_order_id_try(message).t = "exc" THEN PyNone
    ELSE extract_order_id_try(message)

\* str(obj): a str is itself, any other value is its repr
safe_str(obj) == IF obj.t = "str" THEN obj.v ELSE Repr(obj)

\* mutant: a payment is detected only when an order id is resolved
detect_payment_NeedsId(message) ==
    detect_payment_text(safe_str(message)) /\ extract_order_id(message) # PyNone

\* the non-chat payment detection over str(message)
detect_payment(message) == detect_payment_text(safe_str(message))

\* the chat trigger over the text of the message
chat_trigger(message) == is_auto_delivery_trigger(safe_str(message))

\* mutant: a payment without an order id is dispatched too
should_trigger_PaymentOnly(is_payment, order_id) == is_payment

\* should_trigger = is_payment and order_id is not None
should_trigger(is_payment, order_id) == is_payment /\ order_id # PyNone

\* the inbound events
\* {}
E_Empty ==
    PyDict(<<>>)

\* a card update of a paid order: button, updateKey, reminderContent
E_CardUpdatePaid ==
    PyDict(<<Item(<<"1">>,
         PyStr(<<"3", "9", "7", "8", ".", "P", "N", "M">>)),
      Item(<<"4">>,
         PyDict(<<Item(<<"P", "R", "E", "_", "b", "u", "t", "t", "o", "n">>,
              PyStr(<<"{", "\"", "t", "a", "r", "g", "e", "t", "U", "r", "l", "\"", ":",
                    "\"", "f", "l", "e", "a", "m", "a", "r", "k", "e", "t", ":", "/", "/",
                    "o", "r", "d", "e", "r", "_", "d", "e", "t", "a", "i", "l", "?", "i",
                    "d", "=", "4", "5", "0", "2", "0", "6", "1", "5", "7", "7", "&", "r",
                    "o", "l", "e", "=", "s", "e", "l", "l", "e", "r", "\"", ",", "\"", "t",
                    "e", "x", "t", "\"", ":", "\"", "yi", "fu", "kuan", "\"", "}">>)),
           Item(<<"u", "p", "d", "a", "t", "e", "K", "e", "y">>,
              PyStr(<<"5", "8", "4", ":", "4", "5", "0", "2", "0", "6", "1", "5", "7", "7",
                    ":", "6", "3", ":", "T", "R", "A", "D", "E", "_", "P", "A", "I", "D",
                    "_", "D", "O", "N", "E", "_", "S", "E", "L", "L", "E", "R", ":", "2",
                    "6">>)),
           Item(<<"r", "e", "m", "i", "n", "d", "e", "r", "C", "o", "n", "t", "e", "n",
                  "t">>,
              PyStr(<<"[", "wo", "yi", "fu", "kuan", "dou", "deng", "dai", "ni", "fa", "huo",
                    "]">>))>>))>>)

\* a summary message: redReminder only
E_Summary ==
    PyDict(<<Item(<<"1">>,
         PyStr(<<"5", "8", "4", "@", "g", "o", "o", "f", "i", "s", "h">>)),
      Item(<<"2">>,
         PyInt(<<"1">>)),
      Item(<<"3">>,
         PyDict(<<Item(<<"r", "e", "d", "R", "e", "m", "i", "n", "d", "e", "r">>,
              PyStr(<<"deng", "dai", "mai", "jia", "fa", "huo">>))>>)),
      Item(<<"4">>,
         PyInt(<<"1", "7", "7", "1", "2", "3", "9", "5", "7", "0", "1", "5", "5">>))>>)

\* a paid reminder without any order id
E_PaidNoId ==
    PyDict(<<Item(<<"1">>,
         PyStr(<<"x">>)),
      Item(<<"4">>,
         PyDict(<<Item(<<"r", "e", "m", "i", "n", "d", "e", "r", "C", "o", "n", "t", "e", "n",
                  "t">>,
              PyStr(<<"[", "yi", "fu", "kuan", "dou", "dai", "fa", "huo", "]">>))>>))>>)

\* an order placed and not paid
E_Unpaid ==
    PyDict(<<Item(<<"1">>,
         PyStr(<<"x">>)),
      Item(<<"4">>,
         PyDict(<<Item(<<"u", "p", "d", "a", "t", "e", "K", "e", "y">>,
              PyStr(<<"5", "8", "4", ":", "4", "5", "0", "2", "0", "4", "8", "7", "9", "7",
                    ":", "1", "_", "n", "o", "t", "_", "p", "a", "y", "_", "s", "e", "l",
                    "l", "e", "r">>)),
           Item(<<"r", "e", "m", "i", "n", "d", "e", "r", "C", "o", "n", "t", "e", "n",
                  "t">>,
              PyStr(<<"[", "wo", "yi", "pai", "xia", "dou", "dai", "fu", "kuan", "]">>)),
           Item(<<"r", "e", "m", "i", "n", "d", "e", "r", "T", "i", "t", "l", "e">>,
              PyStr(<<"mm", "jia", "yi", "pai", "xia", "dou", "dai", "fu", "kuan">>))>>))>>)

\* a refund request
E_Refund ==
    PyDict(<<Item(<<"1">>,
         PyDict(<<Item(<<"1">>,
              PyDict(<<Item(<<"1">>,
                   PyStr(<<"u", "@", "g", "o", "o", "f", "i", "s", "h">>))>>))>>)),
      Item(<<"4">>,
         PyDict(<<Item(<<"r", "e", "m", "i", "n", "d", "e", "r", "C", "o", "n", "t", "e", "n",
                  "t">>,
              PyStr(<<"[", "wo", "fa", "qi", "le", "tui", "kuan", "shen", "qing", "]">>))>>))>>)

\* a closed trade
E_TradeClosed ==
    PyDict(<<Item(<<"1">>,
         PyStr(<<"x">>)),
      Item(<<"3">>,
         PyDict(<<Item(<<"r", "e", "d", "R", "e", "m", "i", "n", "d", "e", "r">>,
              PyStr(<<"jiao", "yy", "guan", "bi">>))>>))>>)

\* the structured card button with orderId=
E_Button ==
    PyDict(<<Item(<<"1">>,
         PyDict(<<Item(<<"6">>,
              PyDict(<<Item(<<"3">>,
                   PyDict(<<Item(<<"5">>,
                        PyStr(JsonText(ButtonCard(Url_orderId))))>>))>>))>>))>>)

\* the structured card button with a 3-digit orderId
E_ButtonShort ==
    PyDict(<<Item(<<"1">>,
         PyDict(<<Item(<<"6">>,
              PyDict(<<Item(<<"3">>,
                   PyDict(<<Item(<<"5">>,
                        PyStr(JsonText(ButtonCard(Url_orderId_short))))>>))>>))>>))>>)

\* the structured card button with a chat url
E_ButtonChat ==
    PyDict(<<Item(<<"1">>,
         PyDict(<<Item(<<"6">>,
              PyDict(<<Item(<<"3">>,
                   PyDict(<<Item(<<"5">>,
                        PyStr(JsonText(ButtonCard(Url_chat))))>>))>>))>>))>>)

\* the structured card button whose targetUrl is a number
E_ButtonInt ==
    PyDict(<<Item(<<"1">>,
         PyDict(<<Item(<<"6">>,
              PyDict(<<Item(<<"3">>,
                   PyDict(<<Item(<<"5">>,
                        PyStr(JsonText(ButtonCard(PyInt(<<"7">>)))))>>))>>))>>))>>)

\* the structured card with order_detail?id=
E_MainCard ==
    PyDict(<<Item(<<"1">>,
         PyDict(<<Item(<<"6">>,
              PyDict(<<Item(<<"3">>,
                   PyDict(<<Item(<<"5">>,
                        PyStr(JsonText(MainCard(Url_order_detail))))>>))>>))>>))>>)

\* a structured payload that is no JSON text
E_BadJson ==
    PyDict(<<Item(<<"1">>,
         PyDict(<<Item(<<"6">>,
              PyDict(<<Item(<<"3">>,
                   PyDict(<<Item(<<"5">>,
                        PyStr(<<"{", "o", "o", "p", "s">>))>>))>>))>>))>>)

\* a structured payload that is a JSON list
E_JsonList ==
    PyDict(<<Item(<<"1">>,
         PyDict(<<Item(<<"6">>,
              PyDict(<<Item(<<"3">>,
                   PyDict(<<Item(<<"5">>,
                        PyStr(JsonText(PyList(<<PyInt(<<"1">>)>>))))>>))>>))>>))>>)

\* a structured payload whose dxCard is a string
E_JsonScalarCard ==
    PyDict(<<Item(<<"1">>,
         PyDict(<<Item(<<"6">>,
              PyDict(<<Item(<<"3">>,
                   PyDict(<<Item(<<"5">>,
                        PyStr(JsonText(PyDict(<<Item(<<"d", "x", "C", "a", "r", "d">>, PyStr(<<"x">>))>>))))>>))>>))>>))>>)

\* a structured payload that is a number
E_IntPayload ==
    PyDict(<<Item(<<"1">>,
         PyDict(<<Item(<<"6">>,
              PyDict(<<Item(<<"3">>,
                   PyDict(<<Item(<<"5">>,
                        PyInt(<<"4", "2">>))>>))>>))>>))>>)

\* a string where message['1']['6']['3'] should be a dict
E_ScalarWhereDict ==
    PyDict(<<Item(<<"1">>,
         PyDict(<<Item(<<"6">>,
              PyDict(<<Item(<<"3">>,
                   PyStr(<<"o", "o", "p", "s">>))>>))>>))>>)

\* a list under '1'
E_ListShaped ==
    PyDict(<<Item(<<"1">>,
         PyList(<<PyDict(<<Item(<<"1">>,
                PyStr(<<"u", "@", "g", "o", "o", "f", "i", "s", "h">>)),
             Item(<<"2">>,
                PyInt(<<"1">>))>>)>>))>>)

\* an event that is a list
E_TopList ==
    PyList(<<PyStr(<<"x">>)>>)

\* an event that is a string
E_TopStr ==
    PyStr(<<"[", "wo", "yi", "fu", "kuan", "dou", "deng", "dai", "ni", "fa", "huo", "]">>)

\* the chat message of an order placed and not paid
E_ChatUnpaid ==
    PyStr(<<"[", "wo", "yi", "pai", "xia", "dou", "dai", "fu", "kuan", "]">>)

\* the chat message of a refund request
E_ChatRefund ==
    PyStr(<<"[", "wo", "fa", "qi", "le", "tui", "kuan", "shen", "qing", "]">>)

\* the chat message of a closed trade
E_ChatClosed ==
    PyStr(<<"[", "jiao", "yy", "guan", "bi", "]">>)

\* the chat message reminding the seller to ship
E_ChatRemind ==
    PyStr(<<"[", "jj", "de", "jq", "shi", "fa", "huo", "]">>)

\* a chat message with a part of a keyword
E_ChatPartial ==
    PyStr(<<"yi", "fu", "kuan">>)

\* an event that is None
E_TopNone ==
    PyNone

\* a bizOrderId in a plain field
E_BizOrder ==
    PyDict(<<Item(<<"1">>,
         PyStr(<<"x">>)),
      Item(<<"4">>,
         PyDict(<<Item(<<"e", "x", "t", "r", "a">>,
              PyStr(<<"b", "i", "z", "O", "r", "d", "e", "r", "I", "d", "=", "4", "5", "0",
                    "2", "0", "6", "1", "5", "7", "7", "&", "o", "r", "d", "e", "r", "I",
                    "d", ":", "4", "5">>))>>))>>)

\* a bizOrderId before an orderId of another order
E_BizThenOrder ==
    PyDict(<<Item(<<"1">>,
         PyStr(<<"x">>)),
      Item(<<"4">>,
         PyDict(<<Item(<<"e", "x", "t", "r", "a">>,
              PyStr(<<"b", "i", "z", "O", "r", "d", "e", "r", "I", "d", "=", "4", "5", "0",
                      "2", "0", "4", "8", "7", "9", "7", "&", "o", "r", "d", "e", "r", "I",
                      "d", ":", "4", "5", "0", "2", "0", "6", "1", "5", "7", "7">>))>>))>>)

\* an "id" before an order_detail?id= of another order
E_IdThenDetail ==
    PyDict(<<Item(<<"1">>,
         PyStr(<<"x">>)),
      Item(<<"4">>,
         PyDict(<<Item(<<"e", "x", "t", "r", "a">>,
              PyStr(<<"\"", "i", "d", "\"", ":", " ", "\"", "4", "5", "0", "2", "0", "4",
                      "8", "7", "9", "7", "\"", " ", "o", "r", "d", "e", "r", "_", "d",
                      "e", "t", "a", "i", "l", "?", "i", "d", "=", "4", "5", "0", "2", "0",
                      "6", "1", "5", "7", "7">>))>>))>>)

\* a bizOrderId before an "id" of another order
E_BizThenId ==
    PyDict(<<Item(<<"1">>,
         PyStr(<<"x">>)),
      Item(<<"4">>,
         PyDict(<<Item(<<"e", "x", "t", "r", "a">>,
              PyStr(<<"b", "i", "z", "O", "r", "d", "e", "r", "I", "d", "=", "4", "5", "0",
                      "2", "0", "6", "1", "5", "7", "7", " ", "\"", "i", "d", "\"", ":",
                      "4", "5", "0", "2", "0", "4", "8", "7", "9", "7">>))>>))>>)

\* two orderId fields of different orders
E_TwoOrderIds ==
    PyDict(<<Item(<<"1">>,
         PyStr(<<"x">>)),
      Item(<<"4">>,
         PyDict(<<Item(<<"e", "x", "t", "r", "a">>,
              PyStr(<<"o", "r", "d", "e", "r", "I", "d", "=", "4", "5", "0", "2", "0", "4",
                      "8", "7", "9", "7", "&", "o", "r", "d", "e", "r", "I", "d", "=", "4",
                      "5", "0", "2", "0", "6", "1", "5", "7", "7">>))>>))>>)

\* the event e with an order-id-bearing field added
WithOrderUrl(e) ==
    PyDict(Append(e.v, Item(<<"9">>, PyDict(<<Item(<<"r", "e", "m", "i", "n", "d", "e", "r", "U", "r", "l">>, Url_orderId)>>))))

BaseEvents ==
    <<E_Empty, E_CardUpdatePaid, E_Summary, E_PaidNoId,
      E_Unpaid, E_Refund, E_TradeClosed, E_Button,
      E_ButtonShort, E_ButtonChat, E_ButtonInt, E_MainCard,
      E_BadJson, E_JsonList, E_JsonScalarCard, E_IntPayload,
      E_ScalarWhereDict, E_ListShaped, E_TopList, E_TopStr,
      E_TopNone, E_BizOrder, E_ChatUnpaid, E_ChatRefund,
      E_ChatClosed, E_ChatRemind, E_ChatPartial, E_BizThenOrder,
      E_IdThenDetail, E_BizThenId, E_TwoOrderIds>>

\* the status texts of an order that is not paid, refunded or closed
NegativePhrases ==
    <<<<"[", "wo", "yi", "pai", "xia", "dou", "dai", "fu", "kuan", "]">>,
      <<"[", "wo", "fa", "qi", "le", "tui", "kuan", "shen", "qing", "]">>,
      <<"[", "jiao", "yy", "guan", "bi", "]">>>>

\* every base event, and every dict among them with the order url added
Events ==
    BaseEvents \o
    [n \in 1..Len(SelectSeq(BaseEvents, LAMBDA e : e.t = "dict")) |->
        WithOrderUrl(SelectSeq(BaseEvents, LAMBDA e : e.t = "dict")[n])]

-----------------------------------------------------------------------------
(* FulfillmentExecutor.fulfill(idempotencyKey, rankedCandidates), one worker *)
(* per concurrent invocation.  Every persistence call is the DBManager       *)
(* operation above; a persistence error is the nondeterministic input err.   *)

IdleProc == [pc |-> "idle", key |-> Null, cand |-> <<>>, rule |-> 0, lines |-> <<>>,
             existing |-> FALSE, dt |-> 0, content |-> <<>>, tries |-> 0,
             errs |-> 0, writes |-> 0, call |-> 0]

\* a data_content value holds a stock line: a character that is not blank
HasStockLine(dc) ==
    dc # None /\ \E n \in 1..Len(dc[1]) : dc[1][n] \notin {SP, NL}

\* an invocation that has not returned yet; marked0 and stocked are the
\* ledger's and the data card's state when it arrived
Pending(k, c, marked, stocked) ==
    [key |-> k, cand |-> c, marked0 |-> marked, stocked |-> stocked,
     state |-> "Running", reason |-> "",
     content |-> <<>>, rule |-> 0, errs |-> 0, writes |-> 0]

ErrChoices == IF faults < bound.faults THEN BOOLEAN ELSE {FALSE}

\* keys are interchangeable: a run uses them in order of first use
KeyChoices ==
    {bound.keys[n] : n \in {m \in 1..Len(bound.keys) :
        \A j \in 1..(m - 1) : \E i \in 1..Len(outcomes) : outcomes[i].key = bound.keys[j]}}

Hit(p, err) == IF err THEN proc[p].errs + 1 ELSE proc[p].errs

CardOf(rule_id) == rules[rule_id].card_id

\* the arguments fulfill passes to insert_or_update_order: the key alone
LedgerArgs(key) ==
    [order_id |-> key, item_id |-> Null, order_status |-> Null, cookie_id |-> Null]

\* fulfill returns: the outcome is recorded and, on Fulfilled, onFulfilled
\* is triggered with the card's delay
Return(p, state, reason, content, errs, writes) ==
    /\ outcomes' = [outcomes EXCEPT ![proc[p].call] =
          [@ EXCEPT !.state = state, !.reason = reason, !.content = content,
                    !.rule = proc[p].rule, !.errs = errs, !.writes = writes]]
    /\ handoffs' = IF state = "Fulfilled"
                   THEN handoffs \cup
                          {[call |-> proc[p].call, key |-> proc[p].key, content |-> content,
                            delay |-> cards[CardOf(proc[p].rule)].delay_seconds]}
                   ELSE handoffs
    /\ proc' = [proc EXCEPT ![p] = IdleProc]

\* an invocation arrives
Start(p, k, c) ==
    /\ proc[p].pc = "idle"
    /\ \A q \in Procs : q < p => proc[q].pc # "idle"
    /\ Cardinality({q \in Procs : proc[q].pc # "idle"}) < bound.conc
    /\ calls < bound.calls
    /\ calls' = calls + 1
    /\ outcomes' = Append(outcomes, Pending(k, c, OrderRow(orders, k) # None,
                                           HasStockLine(cards[1].data_content)))
    /\ proc' = [proc EXCEPT ![p] = [IdleProc EXCEPT !.pc = "gate", !.key = k, !.cand = c,
                                      !.call = calls + 1]]
    /\ UNCHANGED <<cards, rules, orders, handoffs, popped, faults,
                   restocks, bound, cookies, event, query, result>>

\* mutant: candidate selection takes the last ranked pair
Gate_LastCandidate(p, err) ==
    /\ proc[p].pc = "gate"
    /\ faults' = IF err THEN faults + 1 ELSE faults
    /\ LET row == get_order_by_id(orders, proc[p].key, err)
           c == proc[p].cand
       IN  IF row # None
           THEN Return(p, "Skipped", "already-delivered", <<>>, Hit(p, err), 0)
           ELSE IF c = <<>>
           THEN Return(p, "Skipped", "no-rule-match", <<>>, Hit(p, err), 0)
           ELSE /\ proc' = [proc EXCEPT
                      ![p].rule = c[Len(c)],
                      ![p].errs = Hit(p, err),
                      ![p].content = IF cards[CardOf(c[Len(c)])].type = "data" THEN <<>>
                                     ELSE cards[CardOf(c[Len(c)])].text_content[1],
                      ![p].pc = IF cards[CardOf(c[Len(c)])].type = "data"
                                THEN "pop_read" ELSE "mark_read"]
                /\ UNCHANGED <<outcomes, handoffs>>
    /\ UNCHANGED <<cards, rules, orders, popped, calls, restocks, bound, cookies, event, query, result>>

\* step 1 (idempotency gate) and step 2 (candidate selection); for a card
\* that is not of type data, step 3 takes the static payload
Gate(p, err) ==
    /\ proc[p].pc = "gate"
    /\ faults' = IF err THEN faults + 1 ELSE faults
    /\ LET row == get_order_by_id(orders, proc[p].key, err)
           c == proc[p].cand
       IN  IF row # None
           THEN Return(p, "Skipped", "already-delivered", <<>>, Hit(p, err), 0)
           ELSE IF c = <<>>
           THEN Return(p, "Skipped", "no-rule-match", <<>>, Hit(p, err), 0)
           ELSE /\ proc' = [proc EXCEPT
                      ![p].rule = Head(c),
                      ![p].errs = Hit(p, err),
                      ![p].content = IF cards[CardOf(Head(c))].type = "data" THEN <<>>
                                     ELSE cards[CardOf(Head(c))].text_content[1],
                      ![p].pc = IF cards[CardOf(Head(c))].type = "data"
                                THEN "pop_read" ELSE "mark_read"]
                /\ UNCHANGED <<outcomes, handoffs>>
    /\ UNCHANGED <<cards, rules, orders, popped, calls, restocks, bound, cookies, event, query, result>>

\* step 3 for a data card, consume_batch_data up to `lines`
PopRead(p, err) ==
    /\ proc[p].pc = "pop_read"
    /\ faults' = IF err THEN faults + 1 ELSE faults
    /\ LET r == consume_batch_data_lines(cards, CardOf(proc[p].rule), err)
       IN  IF r = None
           THEN Return(p, "Failed", "out-of-stock", <<>>, Hit(p, err), proc[p].writes)
           ELSE /\ proc' = [proc EXCEPT ![p].lines = r[1], ![p].pc = "pop_write"]
                /\ UNCHANGED <<outcomes, handoffs>>
    /\ UNCHANGED <<cards, rules, orders, popped, calls, restocks, bound, cookies, event, query, result>>

\* consume_batch_data from first_line to the return; a commit that raises is
\* rolled back and the call returns None
PopWrite(p, err) ==
    /\ proc[p].pc = "pop_write"
    /\ faults' = IF err THEN faults + 1 ELSE faults
    /\ IF err
       THEN /\ Return(p, "Failed", "out-of-stock", <<>>, Hit(p, err), proc[p].writes)
            /\ UNCHANGED <<cards, popped>>
       ELSE /\ cards' = consume_batch_data_commit(cards, CardOf(proc[p].rule), proc[p].lines)
            /\ popped' = popped \cup
                  {[call |-> proc[p].call, key |-> proc[p].key,
                    line |-> consume_batch_data_first(proc[p].lines)]}
            /\ proc' = [proc EXCEPT
                  ![p].content = consume_batch_data_first(proc[p].lines),
                  ![p].lines = <<>>,
                  ![p].writes = @ + 1, ![p].pc = "mark_read"]
            /\ UNCHANGED <<outcomes, handoffs>>
    /\ UNCHANGED <<rules, orders, calls, restocks, bound, cookies, event, query, result>>

\* a failed ledger write is retried once, then fulfill returns Failed
MarkFailed(p, errs) ==
    IF proc[p].tries = 0
    THEN /\ proc' = [proc EXCEPT ![p].tries = 1, ![p].errs = errs, ![p].pc = "mark_read"]
         /\ UNCHANGED <<outcomes, handoffs>>
    ELSE Return(p, "Failed", "persistence-unavailable", proc[p].content, errs,
                proc[p].writes)

\* step 4, insert_or_update_order up to `existing`
MarkRead(p, err) ==
    /\ proc[p].pc = "mark_read"
    /\ faults' = IF err THEN faults + 1 ELSE faults
    /\ IF err
       THEN MarkFailed(p, Hit(p, err))
       ELSE /\ proc' = [proc EXCEPT ![p].existing = (OrderRow(orders, proc[p].key) # None),
                                    ![p].pc = "mark_write"]
            /\ UNCHANGED <<outcomes, handoffs>>
    /\ UNCHANGED <<cards, rules, orders, popped, calls, restocks, bound, cookies, event, query, result>>

\* step 4, insert_or_update_order from `if existing:` to the return
MarkWrite(p, err) ==
    /\ proc[p].pc = "mark_write"
    /\ faults' = IF err THEN faults + 1 ELSE faults
    /\ LET r == insert_or_update_order_commit(orders, proc[p].existing,
                                              LedgerArgs(proc[p].key), err)
       IN  IF r[1]
           THEN /\ orders' = r[2]
                /\ proc' = [proc EXCEPT ![p].writes = @ + 1, ![p].existing = FALSE,
                                        ![p].pc = "inc_read"]
                /\ UNCHANGED <<outcomes, handoffs>>
           ELSE /\ MarkFailed(p, Hit(p, err))
                /\ UNCHANGED orders
    /\ UNCHANGED <<cards, rules, popped, calls, restocks, bound, cookies, event, query, result>>

\* step 4, increment_delivery_times up to the read of rule.delivery_times;
\* an exception is logged and the call returns
IncRead(p, err) ==
    /\ proc[p].pc = "inc_read"
    /\ faults' = IF err THEN faults + 1 ELSE faults
    /\ IF err
       THEN Return(p, "Fulfilled", "", proc[p].content, Hit(p, err), proc[p].writes)
       ELSE /\ proc' = [proc EXCEPT ![p].dt = rules[proc[p].rule].delivery_times,
                                    ![p].pc = "inc_write"]
            /\ UNCHANGED <<outcomes, handoffs>>
    /\ UNCHANGED <<cards, rules, orders, popped, calls, restocks, bound, cookies, event, query, result>>

\* step 4, increment_delivery_times: the assignment and the commit; step 5
IncWrite(p, err) ==
    /\ proc[p].pc = "inc_write"
    /\ faults' = IF err THEN faults + 1 ELSE faults
    /\ rules' = IF err THEN rules
                ELSE increment_delivery_times_commit(rules, proc[p].rule, proc[p].dt)
    /\ Return(p, "Fulfilled", "", proc[p].content, Hit(p, err),
              IF err THEN proc[p].writes ELSE proc[p].writes + 1)
    /\ UNCHANGED <<cards, orders, popped, calls, restocks, bound, cookies, event, query, result>>

\* the seller restocks the data card, between two invocations
Restock(c) ==
    /\ restocks < bound.restocks
    /\ calls < bound.calls
    /\ \A p \in Procs : proc[p].pc = "idle"
    /\ restocks' = restocks + 1
    /\ cards' = update_card_data_content(cards, 1, c)
    /\ UNCHANGED <<rules, orders, proc, outcomes, handoffs, popped, calls, faults,
                   bound, cookies, event, query, result>>

\* the seller creates a card
CreateCard(a) ==
    /\ query = <<>>
    /\ Len(cards) < bound.cards
    /\ cards' = IF create_card_accepts(a) THEN Append(cards, create_card_row(a)) ELSE cards
    /\ UNCHANGED <<rules, orders, proc, outcomes, handoffs, popped, calls, faults,
                   restocks, bound, cookies, event, query, result>>

\* the seller creates a delivery rule on an existing card
CreateRule(keyword, card_id, enabled) ==
    /\ query = <<>>
    /\ Len(rules) < bound.rules
    /\ card_id \in DOMAIN cards
    /\ rules' = Append(rules, create_delivery_rule_row(keyword, card_id, enabled))
    /\ UNCHANGED <<cards, orders, proc, outcomes, handoffs, popped, calls, faults,
                   restocks, bound, cookies, event, query, result>>

\* RuleMatcher.match(text, spec).  The query changes nothing in the catalog,
\* so a run builds a catalog and then asks one query.
Match(kw, sn, sv, err) ==
    /\ query = <<>>
    /\ query' = <<[kw |-> kw, sn |-> sn, sv |-> sv, err |-> err]>>
    /\ result' \in get_delivery_rules_by_keyword_and_spec(rules, cards, kw, sn, sv, err)
    /\ UNCHANGED <<cards, rules, orders, proc, outcomes, handoffs, popped, calls,
                   faults, restocks, bound, cookies, event>>

\* RuleMatcher.match(text) through get_delivery_rules_by_keyword
MatchKeyword(kw, err) ==
    /\ query = <<>>
    /\ query' = <<[kw |-> kw, sn |-> Null, sv |-> Null, err |-> err]>>
    /\ result' \in get_delivery_rules_by_keyword(rules, cards, kw, err)
    /\ UNCHANGED <<cards, rules, orders, proc, outcomes, handoffs, popped, calls,
                   faults, restocks, bound, cookies, event>>

\* the seller edits a delivery rule
UpdateRule(rule_id, keyword, enabled) ==
    /\ query = <<>>
    /\ rule_id \in DOMAIN rules
    /\ rules' = update_delivery_rule(rules, rule_id, keyword, enabled)
    /\ UNCHANGED <<cards, orders, proc, outcomes, handoffs, popped, calls, faults,
                   restocks, bound, cookies, event, query, result>>

\* the seller enables or disables a card
SetCardEnabled(card_id, enabled) ==
    /\ query = <<>>
    /\ card_id \in DOMAIN cards
    /\ cards' = update_card_enabled(cards, card_id, enabled)
    /\ UNCHANGED <<rules, orders, proc, outcomes, handoffs, popped, calls, faults,
                   restocks, bound, cookies, event, query, result>>

InitCommonNoRules ==
    /\ proc = [p \in Procs |-> IdleProc]
    /\ outcomes = <<>>
    /\ handoffs = {}
    /\ popped = {}
    /\ calls = 0
    /\ faults = 0
    /\ restocks = 0
    /\ query = <<>>
    /\ result = <<>>
    /\ event = <<>>
    /\ cookies = <<>>

InitCommon ==
    /\ InitCommonNoRules
    /\ rules = <<create_delivery_rule_row(<<"a">>, 1, TRUE),
                 create_delivery_rule_row(<<"a", "b">>, 2, TRUE)>>

\* concurrent invocations on the stock "A\nB"
Init ==
    /\ InitCommon
    /\ cards = <<DataCard, TextCard>>
    /\ orders = <<>>
    /\ bound = [conc |-> NProc, calls |-> MaxCalls, faults |-> MaxFaults, restocks |-> 0,
                cands |-> NonEmptyCandidates, stock0 |-> DataCard.data_content,
                cards |-> 0, rules |-> 0, keys |-> KeySeq]

\* one invocation at a time, on any of the stocks SeqStocks
InitSeq ==
    /\ InitCommon
    /\ orders = <<>>
    /\ \E dc \in SeqStocks :
          /\ cards = <<[DataCard EXCEPT !.data_content = dc], TextCard>>
          /\ bound = [conc |-> 1, calls |-> SeqCalls, faults |-> SeqFaults,
                      restocks |-> MaxRestock, cands |-> SeqCandidates, stock0 |-> dc,
                      cards |-> 0, rules |-> 0, keys |-> SeqKeySeq]

\* one invocation at a time with repeated persistence errors; the key k1
\* may have been delivered by an earlier run
InitFault ==
    /\ InitCommon
    /\ cards = <<DataCard, TextCard>>
    /\ orders \in {<<>>, <<NewOrder(LedgerArgs("k1"))>>}
    /\ bound = [conc |-> 1, calls |-> FaultCalls, faults |-> FaultFaults,
                restocks |-> 0, cands |-> Candidates, stock0 |-> DataCard.data_content,
                cards |-> 0, rules |-> 0, keys |-> KeySeq]

Step ==
    \/ \E p \in Procs, k \in KeyChoices, c \in bound.cands : Start(p, k, c)
    \/ \E p \in Procs, err \in ErrChoices : Gate(p, err)
    \/ \E p \in Procs, err \in ErrChoices : PopRead(p, err)
    \/ \E p \in Procs, err \in ErrChoices : PopWrite(p, err)
    \/ \E p \in Procs, err \in ErrChoices : MarkRead(p, err)
    \/ \E p \in Procs, err \in ErrChoices : MarkWrite(p, err)
    \/ \E p \in Procs, err \in ErrChoices : IncRead(p, err)
    \/ \E p \in Procs, err \in ErrChoices : IncWrite(p, err)

Next == Step

NextSeq ==
    \/ Step
    \/ \E c \in RestockContents : Restock(c)

Spec == Init /\ [][Next]_vars

SpecSeq == InitSeq /\ [][NextSeq]_vars

SpecFault == InitFault /\ [][Next]_vars

\* the matcher over the catalogs the seller can build
InitMatch ==
    /\ InitCommonNoRules
    /\ cards \in {<<>>, <<LegacyCard>>}
    /\ rules = <<>>
    /\ orders = <<>>
    /\ bound = [conc |-> 0, calls |-> 0, faults |-> 0, restocks |-> 0,
                cands |-> {}, stock0 |-> None, cards |-> MaxCards, rules |-> MaxRules,
                keys |-> <<>>]

NextMatch ==
    \/ \E a \in CardArgs : CreateCard(a)
    \/ \E k \in RuleKeywords, c \in 1..MaxCards : CreateRule(k, c, TRUE)
    \/ \E t \in Texts, sp \in QuerySpecs, err \in BOOLEAN : Match(t, sp[1], sp[2], err)

SpecMatch == InitMatch /\ [][NextMatch]_vars

\* the matcher's ranking over rules the seller creates and edits on two
\* generic cards
InitRank ==
    /\ InitCommonNoRules
    /\ cards = <<create_card_row(GenericCardArgs), create_card_row(GenericCardArgs)>>
    /\ rules = <<>>
    /\ orders = <<>>
    /\ bound = [conc |-> 0, calls |-> 0, faults |-> 0, restocks |-> 0,
                cands |-> {}, stock0 |-> None, cards |-> 0, rules |-> MaxRankRules,
                keys |-> <<>>]

NextRank ==
    \/ \E k \in RankKeywords, c \in DOMAIN cards, e \in BOOLEAN : CreateRule(k, c, e)
    \/ \E r \in DOMAIN rules, u \in RuleUpdates : UpdateRule(r, u[1], u[2])
    \/ \E c \in DOMAIN cards, e \in BOOLEAN : SetCardEnabled(c, e)
    \/ \E t \in RankTexts, err \in BOOLEAN : MatchKeyword(t, err)
    \/ \E t \in RankTexts, sp \in RankSpecs, err \in BOOLEAN : Match(t, sp[1], sp[2], err)

SpecRank == InitRank /\ [][NextRank]_vars

-----------------------------------------------------------------------------
(* The event pipeline: raw event -> EventClassifier -> RuleMatcher ->        *)
(* FulfillmentExecutor, one event per run.  The ledger may already hold the  *)
(* order of an event delivered by an earlier run.                            *)

\* the buyer's message texts the driver hands to the matcher
PipeTexts == {<<"a">>, <<"z">>}

\* the order id of Url_orderId
DeliveredId == <<"4", "5", "0", "2", "0", "6", "1", "5", "7", "7">>

\* the order ids the events carry: the digits matched and the str they are
OrderIds ==
    {[digits |-> DeliveredId, key |-> "4502061577"],
     [digits |-> <<"4", "5", "0", "2", "0", "4", "8", "7", "9", "7">>, key |-> "4502048797"],
     [digits |-> <<"1", "2", "3">>, key |-> "123"]}

\* the ledger when the event arrives
PipeLedgers == {<<>>, <<NewOrder(LedgerArgs("4502061577"))>>}

\* classify(rawEvent) -> (isPayment, orderId): the order id is extracted,
\* then the payment indicators are looked for in str(message); chat_trigger
\* is the verdict of the chat keyword list on the same text
classify(message) ==
    [order_id |-> extract_order_id(message), is_payment |-> detect_payment(message),
     chat_trigger |-> chat_trigger(message)]

\* the verdict of classify on every inbound event
Verdicts == [n \in DOMAIN Events |-> classify(Events[n])]

\* the stage after classification
after_classify(is_payment) == IF is_payment THEN "PaymentDetected" ELSE "Skipped"

\* mutant: an event without an order id is classified again
after_correlate_Backwards(trigger) == IF trigger THEN "OrderCorrelated" ELSE "Unclassified"

\* the stage after order correlation
after_correlate(trigger) == IF trigger THEN "OrderCorrelated" ELSE "Skipped"

\* the idempotency key of a verdict
KeyOf(order_id) ==
    IF order_id.t # "str" THEN Null
    ELSE (CHOOSE r \in OrderIds : r.digits = order_id.v).key

\* the rule ids of a matcher result, in rank order
CandidatesOf(rows) == [n \in DOMAIN rows |-> rows[n].id]

\* an event arrives
Arrive(n, text) ==
    /\ event = <<>>
    /\ event' = <<[ev |-> n, text |-> text, stage |-> "Unclassified",
                   is_payment |-> FALSE, chat_trigger |-> FALSE, order_id |-> PyNone,
                   cand |-> <<>>]>>
    /\ UNCHANGED <<cards, rules, orders, proc, outcomes, handoffs, popped, calls,
                   faults, restocks, bound, cookies, query, result>>

\* EventClassifier.classify on the event
Classify ==
    /\ event # <<>>
    /\ event[1].stage = "Unclassified"
    /\ LET v == Verdicts[event[1].ev]
       IN  event' = <<[event[1] EXCEPT !.is_payment = v.is_payment,
                                       !.chat_trigger = v.chat_trigger,
                                       !.order_id = v.order_id,
                                       !.stage = after_classify(v.is_payment)]>>
    /\ UNCHANGED <<cards, rules, orders, proc, outcomes, handoffs, popped, calls,
                   faults, restocks, bound, cookies, query, result>>

\* the driver's decision: should_trigger = is_payment and order_id is not None
Correlate ==
    /\ event # <<>>
    /\ event[1].stage = "PaymentDetected"
    /\ event' = <<[event[1] EXCEPT !.stage =
                      after_correlate(should_trigger(event[1].is_payment,
                                                     event[1].order_id))]>>
    /\ UNCHANGED <<cards, rules, orders, proc, outcomes, handoffs, popped, calls,
                   faults, restocks, bound, cookies, query, result>>

\* RuleMatcher.match on the buyer's text; err is a failing catalog read
MatchRules(err) ==
    /\ event # <<>>
    /\ event[1].stage = "OrderCorrelated"
    /\ query' = <<[kw |-> event[1].text, sn |-> Null, sv |-> Null, err |-> err]>>
    /\ result' \in get_delivery_rules_by_keyword(rules, cards, event[1].text, err)
    /\ event' = <<[event[1] EXCEPT !.cand = CandidatesOf(result'),
                                   !.stage = "RuleMatched"]>>
    /\ UNCHANGED <<cards, rules, orders, proc, outcomes, handoffs, popped, calls,
                   faults, restocks, bound, cookies>>

\* fulfill(idempotencyKey, rankedCandidates) is invoked for the event
Dispatch(p) ==
    /\ event # <<>>
    /\ event[1].stage = "RuleMatched"
    /\ calls = 0
    /\ Start(p, KeyOf(event[1].order_id), event[1].cand)

\* the state of the event in the per-event state machine: the driver's stage
\* until fulfill returns, then the outcome of fulfill
EventState ==
    IF event = <<>> THEN "Unclassified"
    ELSE IF outcomes # <<>> /\ outcomes[1].state # "Running" THEN outcomes[1].state
    ELSE event[1].stage

InitPipe ==
    /\ InitCommon
    /\ cards = <<DataCard, TextCard>>
    /\ orders \in PipeLedgers
    /\ bound = [conc |-> 1, calls |-> 1, faults |-> MaxFaults, restocks |-> 0,
                cands |-> {}, stock0 |-> DataCard.data_content,
                cards |-> 0, rules |-> 0, keys |-> <<>>]

NextPipe ==
    \/ \E n \in DOMAIN Events, t \in PipeTexts : Arrive(n, t)
    \/ Classify
    \/ Correlate
    \/ \E err \in BOOLEAN : MatchRules(err)
    \/ \E p \in Procs : Dispatch(p)
    \/ \E p \in Procs, err \in ErrChoices : Gate(p, err)
    \/ \E p \in Procs, err \in ErrChoices : PopRead(p, err)
    \/ \E p \in Procs, err \in ErrChoices : PopWrite(p, err)
    \/ \E p \in Procs, err \in ErrChoices : MarkRead(p, err)
    \/ \E p \in Procs, err \in ErrChoices : MarkWrite(p, err)
    \/ \E p \in Procs, err \in ErrChoices : IncRead(p, err)
    \/ \E p \in Procs, err \in ErrChoices : IncWrite(p, err)

SpecPipe == InitPipe /\ [][NextPipe]_vars

\* every handler of the driver and every step of fulfill runs to its end
SpecPipeLive == SpecPipe /\ WF_vars(NextPipe)

-----------------------------------------------------------------------------
(* The delivery counter: concurrent invocations of fulfill on an out-of-     *)
(* stock data card and a text card, while the seller edits rules and the     *)
(* matcher is queried.                                                       *)

CountCandidates == {<<>>, <<1>>, <<2>>}
CountUpdates == {<<None, Some(FALSE)>>, <<Some(<<"b">>), None>>}

InitCount ==
    /\ InitCommon
    /\ cards = <<[DataCard EXCEPT !.data_content = None], TextCard>>
    /\ orders = <<>>
    /\ bound = [conc |-> NProc, calls |-> CountCalls, faults |-> 0, restocks |-> 0,
                cands |-> CountCandidates, stock0 |-> None,
                cards |-> 0, rules |-> 0, keys |-> SeqKeySeq]

NextCount ==
    \/ \E p \in Procs, k \in KeyChoices, c \in bound.cands : Start(p, k, c)
    \/ \E p \in Procs, err \in ErrChoices : Gate(p, err)
    \/ \E p \in Procs, err \in ErrChoices : PopRead(p, err)
    \/ \E p \in Procs, err \in ErrChoices : MarkRead(p, err)
    \/ \E p \in Procs, err \in ErrChoices : MarkWrite(p, err)
    \/ \E p \in Procs, err \in ErrChoices : IncRead(p, err)
    \/ \E p \in Procs, err \in ErrChoices : IncWrite(p, err)
    \/ \E r \in DOMAIN rules, u \in CountUpdates : UpdateRule(r, u[1], u[2])
    \/ MatchKeyword(<<"a">>, FALSE)

SpecCount == InitCount /\ [][NextCount]_vars

-----------------------------------------------------------------------------
(* Delayed hand-offs: onFulfilled schedules the message-send after the      *)
(* card's delay; `delay` of a hand-off is the time left until it is sent.   *)

DelayCandidates == {<<1>>, <<2, 1>>}

\* a second passes: every scheduled hand-off that is not sent yet comes closer
Elapse ==
    /\ \E h \in handoffs : h.delay > 0
    /\ handoffs' = {[h EXCEPT !.delay = IF @ > 0 THEN @ - 1 ELSE 0] : h \in handoffs}
    /\ UNCHANGED <<cards, rules, orders, proc, outcomes, popped, calls, faults,
                   restocks, bound, cookies, event, query, result>>

\* one invocation at a time; both cards deliver after DelaySeconds
InitDelay ==
    /\ InitCommon
    /\ cards = <<[DataCard EXCEPT !.delay_seconds = DelaySeconds],
                 [TextCard EXCEPT !.delay_seconds = DelaySeconds]>>
    /\ orders = <<>>
    /\ bound = [conc |-> 1, calls |-> DelayCalls, faults |-> DelayFaults, restocks |-> 0,
                cands |-> DelayCandidates, stock0 |-> DataCard.data_content,
                cards |-> 0, rules |-> 0, keys |-> KeySeq]

NextDelay ==
    \/ Step
    \/ Elapse

SpecDelay == InitDelay /\ [][NextDelay]_vars

-----------------------------------------------------------------------------
(* consume_batch_data as a whole, called for the data card, the text card    *)
(* and a card that does not exist.                                           *)

\* consume_batch_data in one session: <<returned value, cards after>>; an
\* exception is rolled back and None is returned
consume_batch_data(cs, card_id, err) ==
    IF consume_batch_data_lines(cs, card_id, FALSE) = None THEN <<None, cs>>
    ELSE IF err THEN <<None, cs>>
    ELSE <<Some(consume_batch_data_first(consume_batch_data_lines(cs, card_id, FALSE)[1])),
           consume_batch_data_commit(cs, card_id,
                                     consume_batch_data_lines(cs, card_id, FALSE)[1])>>

ConsumeBatchData(card_id, err) ==
    /\ calls < bound.calls
    /\ calls' = calls + 1
    /\ query' = <<[op |-> "consume", card_id |-> card_id, err |-> err]>>
    /\ result' = consume_batch_data(cards, card_id, err)[1]
    /\ cards' = consume_batch_data(cards, card_id, err)[2]
    /\ popped' = IF consume_batch_data(cards, card_id, err)[1] = None THEN popped
                 ELSE popped \cup {[call |-> calls + 1, key |-> Null,
                                    line |-> consume_batch_data(cards, card_id, err)[1][1]]}
    /\ UNCHANGED <<rules, orders, cookies, proc, outcomes, handoffs, faults, restocks,
                   bound, event>>

InitStock ==
    /\ InitCommon
    /\ orders = <<>>
    /\ \E dc \in SeqStocks :
          /\ cards = <<[DataCard EXCEPT !.data_content = dc], TextCard>>
          /\ bound = [conc |-> 0, calls |-> StockCalls, faults |-> 0, restocks |-> 0,
                      cands |-> {}, stock0 |-> dc, cards |-> 0, rules |-> 0, keys |-> <<>>]

NextStock == \E card_id \in 1..3, err \in BOOLEAN : ConsumeBatchData(card_id, err)

SpecStock == InitStock /\ [][NextStock]_vars

-----------------------------------------------------------------------------
(* Administration of tables, and insert_or_update_order as a whole, over the *)
(* tables orders and cookies; the time of a call is its number.              *)

ALLOWED_TABLES ==
    {"users", "cookies", "cookie_status", "keywords",
     "default_replies", "default_reply_records", "item_replay",
     "ai_reply_settings", "ai_conversations", "ai_item_cache",
     "item_info", "message_notifications", "cards",
     "delivery_rules", "notification_channels", "user_settings",
     "system_settings", "email_verifications", "captcha_codes", "orders",
     "risk_control_logs"}

\* the keys of TABLE_MODEL_MAP
TABLE_MODEL_MAP ==
    {"users", "cookies", "cookie_status", "keywords", "default_replies",
     "default_reply_records", "item_replay", "ai_reply_settings", "ai_conversations",
     "ai_item_cache", "item_info", "message_notifications", "cards", "delivery_rules",
     "notification_channels", "user_settings", "system_settings", "email_verifications",
     "captcha_codes", "orders", "risk_control_logs"}

\* names that are no table
BadTableNames ==
    {"evil_table", "DROP TABLE users--", "'; DELETE FROM users;--", "../etc/passwd",
     "Orders", ""}

\* the tables the runs hold rows of
AdminTables == {"orders", "cookies"}

\* raise ValueError(msg)
ValueError(msg) == [t |-> "exc", v |-> msg]

\* mutant: every name is accepted
validate_table_name_AcceptAll(table_name) == PyNone

\* _validate_table_name: None, or ValueError(f"非法表名: {table_name}")
validate_table_name(table_name) ==
    IF table_name \notin ALLOWED_TABLES
    THEN ValueError(<<"fei", "fa", "biao", "ming", ":", " ", table_name>>)
    ELSE PyNone

\* the row of an order with the columns created_at and updated_at
Stamp(fields, created_at, updated_at) ==
    [order_id |-> fields.order_id, item_id |-> fields.item_id,
     order_status |-> fields.order_status, cookie_id |-> fields.cookie_id,
     created_at |-> created_at, updated_at |-> updated_at]

\* the columns of an order that an argument of insert_or_update_order sets
OrderFields(row) ==
    [order_id |-> row.order_id, item_id |-> row.item_id,
     order_status |-> row.order_status, cookie_id |-> row.cookie_id]

\* session.query(CookieAccount).filter_by(id=cookie_id).first()
CookieExists(cks, cookie_id) == \E i \in DOMAIN cks : cks[i].id = cookie_id

\* ForeignKey('cookies.id') of orders.cookie_id, checked at the commit
OrderForeignKeyHolds(cks, row) ==
    row.cookie_id = Null \/ CookieExists(cks, row.cookie_id)

\* insert_or_update_order in one session: <<returned value, orders after>>.
\* An UPDATE is sent only when a column changes, and sets updated_at.
insert_or_update_order(tbl, cks, args, now, err) ==
    IF err THEN <<FALSE, tbl>>
    ELSE IF args.cookie_id \notin {Null, ""} /\ ~CookieExists(cks, args.cookie_id)
    THEN <<FALSE, tbl>>
    ELSE IF OrderRow(tbl, args.order_id) # None
    THEN LET old == OrderRow(tbl, args.order_id)[1]
             new == UpdateOrderFields(old, args)
         IN  IF ~OrderForeignKeyHolds(cks, new) THEN <<FALSE, tbl>>
             ELSE <<TRUE, [i \in DOMAIN tbl |->
                             IF tbl[i].order_id # args.order_id THEN tbl[i]
                             ELSE IF new = OrderFields(old) THEN old
                             ELSE Stamp(new, old.created_at, now)]>>
    ELSE IF ~OrderForeignKeyHolds(cks, NewOrder(args)) THEN <<FALSE, tbl>>
    ELSE <<TRUE, Append(tbl, Stamp(NewOrder(args), now, now))>>

\* [c.key for c in mapper.column_attrs]
TableColumns(table_name) ==
    IF table_name = "orders"
    THEN <<"order_id", "item_id", "order_status", "cookie_id", "created_at", "updated_at">>
    ELSE <<"id">>

\* get_table_data: <<data, columns>>
get_table_data(table_name, tbl, cks, err) ==
    IF validate_table_name(table_name).t = "exc" THEN <<<<>>, <<>>>>
    ELSE IF table_name \notin TABLE_MODEL_MAP THEN <<<<>>, <<>>>>
    ELSE IF err THEN <<<<>>, <<>>>>
    ELSE <<IF table_name = "orders" THEN tbl ELSE cks, TableColumns(table_name)>>

\* delete_table_record: <<returned value, orders after, cookies after>>; the
\* orders of a deleted cookie go with it (ondelete='CASCADE')
delete_table_record(table_name, record_id, tbl, cks, err) ==
    IF validate_table_name(table_name).t = "exc" THEN <<FALSE, tbl, cks>>
    ELSE IF table_name \notin TABLE_MODEL_MAP THEN <<FALSE, tbl, cks>>
    ELSE IF err THEN <<FALSE, tbl, cks>>
    ELSE IF table_name = "orders"
    THEN IF OrderRow(tbl, record_id) = None THEN <<FALSE, tbl, cks>>
         ELSE <<TRUE, SelectSeq(tbl, LAMBDA r : r.order_id # record_id), cks>>
    ELSE IF ~CookieExists(cks, record_id) THEN <<FALSE, tbl, cks>>
         ELSE <<TRUE, SelectSeq(tbl, LAMBDA r : r.cookie_id # record_id),
                SelectSeq(cks, LAMBDA c : c.id # record_id)>>

\* clear_table_data: <<returned value, orders after, cookies after>>
clear_table_data(table_name, tbl, cks, err) ==
    IF validate_table_name(table_name).t = "exc" THEN <<FALSE, tbl, cks>>
    ELSE IF table_name \notin TABLE_MODEL_MAP THEN <<FALSE, tbl, cks>>
    ELSE IF err THEN <<FALSE, tbl, cks>>
    ELSE IF table_name = "orders" THEN <<TRUE, <<>>, cks>>
    ELSE <<TRUE, SelectSeq(tbl, LAMBDA r : r.cookie_id = Null), <<>>>>

\* the inputs of the runs
AdminOrderIds == {"k1", "k2"}
AdminItemIds == {Null, "i1"}
AdminStatuses == {Null, "paid"}
AdminCookieIds == {Null, "", "c1", "c9"}
AdminRecordIds == {"k1", "c1"}
AdminArgs ==
    [order_id : AdminOrderIds, item_id : AdminItemIds, order_status : AdminStatuses,
     cookie_id : AdminCookieIds]

\* the call made: its operation and arguments
AdminQuery(op, table_name, record_id, args, err) ==
    <<[op |-> op, table |-> table_name, id |-> record_id, args |-> args, err |-> err]>>

AdminFrame == UNCHANGED <<cards, rules, proc, outcomes, handoffs, popped, faults,
                          restocks, bound, event>>

ValidateTableName(table_name) ==
    /\ calls < bound.calls
    /\ calls' = calls + 1
    /\ query' = AdminQuery("validate", table_name, Null, LedgerArgs(Null), FALSE)
    /\ result' = validate_table_name(table_name)
    /\ UNCHANGED <<orders, cookies>>
    /\ AdminFrame

GetTableData(table_name, err) ==
    /\ calls < bound.calls
    /\ calls' = calls + 1
    /\ query' = AdminQuery("get", table_name, Null, LedgerArgs(Null), err)
    /\ result' = get_table_data(table_name, orders, cookies, err)
    /\ UNCHANGED <<orders, cookies>>
    /\ AdminFrame

DeleteTableRecord(table_name, record_id, err) ==
    /\ calls < bound.calls
    /\ calls' = calls + 1
    /\ query' = AdminQuery("delete", table_name, record_id, LedgerArgs(Null), err)
    /\ result' = delete_table_record(table_name, record_id, orders, cookies, err)[1]
    /\ orders' = delete_table_record(table_name, record_id, orders, cookies, err)[2]
    /\ cookies' = delete_table_record(table_name, record_id, orders, cookies, err)[3]
    /\ AdminFrame

ClearTableData(table_name, err) ==
    /\ calls < bound.calls
    /\ calls' = calls + 1
    /\ query' = AdminQuery("clear", table_name, Null, LedgerArgs(Null), err)
    /\ result' = clear_table_data(table_name, orders, cookies, err)[1]
    /\ orders' = clear_table_data(table_name, orders, cookies, err)[2]
    /\ cookies' = clear_table_data(table_name, orders, cookies, err)[3]
    /\ AdminFrame

InsertOrUpdateOrder(args, err) ==
    /\ calls < bound.calls
    /\ calls' = calls + 1
    /\ query' = AdminQuery("insert_or_update", "orders", Null, args, err)
    /\ result' = insert_or_update_order(orders, cookies, args, calls + 1, err)[1]
    /\ orders' = insert_or_update_order(orders, cookies, args, calls + 1, err)[2]
    /\ UNCHANGED cookies
    /\ AdminFrame

\* the cookie c1 exists, with or without an order of it
InitAdmin ==
    /\ proc = [p \in Procs |-> IdleProc]
    /\ outcomes = <<>>
    /\ handoffs = {}
    /\ popped = {}
    /\ calls = 0
    /\ faults = 0
    /\ restocks = 0
    /\ query = <<>>
    /\ result = <<>>
    /\ event = <<>>
    /\ cards = <<>>
    /\ rules = <<>>
    /\ cookies = <<[id |-> "c1"]>>
    /\ orders \in {<<>>, <<Stamp(NewOrder([LedgerArgs("k1") EXCEPT !.cookie_id = "c1"]), 0, 0)>>}
    /\ bound = [conc |-> 0, calls |-> AdminCalls, faults |-> 0, restocks |-> 0,
                cands |-> {}, stock0 |-> None, cards |-> 0, rules |-> 0, keys |-> <<>>]

NextAdmin ==
    \/ \E t \in ALLOWED_TABLES \cup BadTableNames : ValidateTableName(t)
    \/ \E t \in AdminTables \cup BadTableNames, err \in BOOLEAN : GetTableData(t, err)
    \/ \E t \in AdminTables \cup BadTableNames, id \in AdminRecordIds, err \in BOOLEAN :
          DeleteTableRecord(t, id, err)
    \/ \E t \in AdminTables \cup BadTableNames, err \in BOOLEAN : ClearTableData(t, err)
    \/ \E a \in AdminArgs, err \in BOOLEAN : InsertOrUpdateOrder(a, err)

SpecAdmin == InitAdmin /\ [][NextAdmin]_vars

-----------------------------------------------------------------------------
(* Properties *)

Returned(i) == outcomes[i].state # "Running"
Calls == 1..Len(outcomes)
KeyMarked(k) == OrderRow(orders, k) # None

\* C1: of the invocations of fulfill for one key with a non-empty candidate
\* list (and no persistence error), exactly one ends Fulfilled and every
\* other one ends Skipped("already-delivered").
C1_ExactlyOneFulfilled ==
    \A i, j \in Calls :
        (/\ i < j
         /\ outcomes[i].key = outcomes[j].key
         /\ Returned(i) /\ Returned(j)
         /\ outcomes[i].cand # <<>> /\ outcomes[j].cand # <<>>
         /\ outcomes[i].errs = 0 /\ outcomes[j].errs = 0)
        => \E a, b \in {i, j} :
              /\ a # b
              /\ outcomes[a].state = "Fulfilled"
              /\ outcomes[b].state = "Skipped"
              /\ outcomes[b].reason = "already-delivered"

\* C2: no stock line is handed to two callers.
C2_NoLineHandedTwice ==
    \A e, f \in popped : e.call # f.call => e.line # f.line

\* C4: the commit is atomic: whenever a stock line has been popped for a
\* key, the key is in the ledger and the rule's counter counts the pop.
C4_AtomicCommit ==
    faults = 0 =>
        /\ \A e \in popped : KeyMarked(e.key)
        /\ rules[1].delivery_times = Cardinality(popped)

\* C7: an invocation whose key is already in the ledger ends
\* Skipped("already-delivered"), commits nothing and triggers no hand-off.
C7_AlreadyDeliveredIsNoOp ==
    \A i \in Calls :
        (outcomes[i].marked0 /\ Returned(i))
        => /\ outcomes[i].state = "Skipped"
           /\ outcomes[i].reason = "already-delivered"
           /\ outcomes[i].writes = 0
           /\ \A h \in handoffs : h.call # i

\* C8: an invocation that ends Failed after persistence errors has committed
\* nothing: no stock line popped, no ledger entry, no counter increment.
C8_FailedCommitsNothing ==
    \A i \in Calls :
        (Returned(i) /\ outcomes[i].state = "Failed" /\ outcomes[i].errs > 0)
        => /\ outcomes[i].writes = 0
           /\ \A e \in popped : e.call # i

\* C3: the ledger holds at most one entry per key; every entry was written
\* by an invocation that ends Fulfilled; an entry, once written, is never
\* changed or removed.
C3_LedgerState ==
    /\ \A m, n \in 1..Len(orders) : orders[m].order_id = orders[n].order_id => m = n
    /\ \A m \in 1..Len(orders) : \E i \in Calls :
          /\ outcomes[i].key = orders[m].order_id
          /\ \/ outcomes[i].state = "Fulfilled"
             \/ \E p \in Procs : proc[p].call = i /\ proc[p].pc \in {"inc_read", "inc_write"}

C3_LedgerStep ==
    \A m \in 1..Len(orders) : m <= Len(orders') /\ orders'[m] = orders[m]

C3_Ledger == [](C3_LedgerState) /\ [][C3_LedgerStep]_vars

\* C3 witness: two invocations for one key both went through
\* insert_or_update_order and the ledger holds one entry for the key
C3_Witness ==
    \E i, j \in Calls :
        /\ i # j /\ outcomes[i].key = outcomes[j].key
        /\ outcomes[i].state = "Fulfilled" /\ outcomes[j].state = "Fulfilled"
        /\ Cardinality({m \in 1..Len(orders) : orders[m].order_id = outcomes[i].key}) = 1

PopsBefore(i) == Cardinality({e \in popped : e.call < i})
Orig == NonBlankLines(bound.stock0)

\* C5: without restocking, sequential pops return the non-blank lines of the
\* stock in their stored order, one per pop; a pop after the last line ends
\* Failed("out-of-stock") and leaves the key of that attempt unmarked.
C5_SequentialPops ==
    restocks = 0 =>
        /\ \A e \in popped :
              /\ PopsBefore(e.call) < Len(Orig)
              /\ e.line = Orig[PopsBefore(e.call) + 1]
        /\ \A i \in Calls :
              (/\ Returned(i) /\ outcomes[i].cand = <<1>>
               /\ ~outcomes[i].marked0 /\ outcomes[i].errs = 0)
              => IF PopsBefore(i) < Len(Orig)
                 THEN /\ outcomes[i].state = "Fulfilled"
                      /\ outcomes[i].content = Orig[PopsBefore(i) + 1]
                      /\ \E e \in popped : e.call = i
                 ELSE /\ outcomes[i].state = "Failed"
                      /\ outcomes[i].reason = "out-of-stock"
                      /\ \A e \in popped : e.call # i
                      /\ (\A j \in Calls : j > i => outcomes[j].key # outcomes[i].key)
                            => ~KeyMarked(outcomes[i].key)

\* C5 witness: the stock " A \n\nB\n" gave "A", then "B", then out-of-stock
C5_Witness ==
    /\ restocks = 0
    /\ faults = 0
    /\ bound.stock0 = Some(<<SP, "A", SP, NL, NL, "B", NL>>)
    /\ Len(outcomes) = 3
    /\ outcomes[1].state = "Fulfilled" /\ outcomes[1].content = <<"A">>
    /\ outcomes[2].state = "Fulfilled" /\ outcomes[2].content = <<"B">>
    /\ outcomes[3].state = "Failed" /\ outcomes[3].reason = "out-of-stock"
    /\ outcomes[3].cand = <<1>> /\ ~KeyMarked(outcomes[3].key)

\* an invocation that selected the data card while it held no stock line
SelectedEmptyDataCard(i) ==
    /\ outcomes[i].cand = <<1>>
    /\ ~outcomes[i].stocked
    /\ outcomes[i].state # "Skipped"
    /\ \A p \in Procs : proc[p].call = i => proc[p].pc # "gate"

\* C6: an invocation that selects a data card with no non-blank stock line
\* ends Failed("out-of-stock"); none of its steps changes the ledger, the
\* stock or delivery_times; and the next invocation for the same key that
\* finds a stock line (and meets no persistence error) ends Fulfilled, the
\* key having been unmarked when the failed invocation arrived.
C6_OutOfStockState ==
    /\ \A i \in Calls :
          (Returned(i) /\ SelectedEmptyDataCard(i))
          => /\ outcomes[i].state = "Failed"
             /\ outcomes[i].reason = "out-of-stock"
             /\ outcomes[i].content = <<>>
    /\ \A i, j \in Calls :
          (/\ i < j /\ Returned(i) /\ SelectedEmptyDataCard(i) /\ ~outcomes[i].marked0
           /\ outcomes[j].key = outcomes[i].key
           /\ \A m \in Calls : (i < m /\ m < j /\ outcomes[m].key = outcomes[i].key)
                                  => outcomes[m].state # "Fulfilled"
           /\ Returned(j) /\ outcomes[j].cand = <<1>> /\ outcomes[j].stocked
           /\ outcomes[j].errs = 0)
          => outcomes[j].state = "Fulfilled"

C6_OutOfStockStep ==
    (\E p \in Procs : proc[p].pc # "idle" /\ SelectedEmptyDataCard(proc[p].call))
    => /\ orders' = orders
       /\ cards' = cards
       /\ rules' = rules

C6_OutOfStock == [](C6_OutOfStockState) /\ [][C6_OutOfStockStep]_vars

\* C6 witness: out-of-stock for a key, a restock, then the key is fulfilled
C6_Witness ==
    \E i, j \in Calls :
        /\ i < j /\ outcomes[i].key = outcomes[j].key
        /\ SelectedEmptyDataCard(i)
        /\ outcomes[i].state = "Failed" /\ outcomes[i].reason = "out-of-stock"
        /\ restocks = 1
        /\ outcomes[j].state = "Fulfilled" /\ outcomes[j].content = <<"C">>
        /\ KeyMarked(outcomes[j].key)

-----------------------------------------------------------------------------
(* The matcher's spec resolution (SpecMatch)                                 *)

\* the rules the last query returned
ReturnedRules == {result[n].id : n \in DOMAIN result}

\* eligible matching rules whose card is multi-spec and carries the queried spec
ExactRules ==
    {id \in DOMAIN rules :
        /\ MatchingRule(rules, cards, query[1].kw, id)
        /\ cards[rules[id].card_id].is_multi_spec = SqlTrue
        /\ cards[rules[id].card_id].spec_name = query[1].sn
        /\ cards[rules[id].card_id].spec_value = query[1].sv}

\* eligible matching rules whose card is generic
GenericRules ==
    {id \in DOMAIN rules :
        /\ MatchingRule(rules, cards, query[1].kw, id)
        /\ cards[rules[id].card_id].is_multi_spec # SqlTrue}

\* C9: for a query with a supplied spec (name, value), no returned rule has a
\* multi-spec card whose (spec_name, spec_value) differs from the supplied
\* spec; and when no eligible matching rule has a card carrying the requested
\* spec and none has a generic card, the result is the empty list.
C9_NoCrossSpec ==
    (query # <<>> /\ query[1].sn # Null /\ query[1].sv # Null) =>
        /\ \A id \in ReturnedRules :
              cards[rules[id].card_id].is_multi_spec = SqlTrue =>
                  /\ cards[rules[id].card_id].spec_name = query[1].sn
                  /\ cards[rules[id].card_id].spec_value = query[1].sv
        /\ (ExactRules = {} /\ GenericRules = {}) => result = <<>>

\* a (color, red) query over a catalog whose only eligible matching rule has
\* a (color, blue) card was answered, without a read error, by the empty list
C9_Witness ==
    /\ query # <<>>
    /\ ~query[1].err
    /\ query[1].sn = "color" /\ query[1].sv = "red"
    /\ \E id \in DOMAIN rules :
          /\ MatchingRule(rules, cards, query[1].kw, id)
          /\ cards[rules[id].card_id].is_multi_spec = SqlTrue
          /\ cards[rules[id].card_id].spec_value = "blue"
    /\ ExactRules = {}
    /\ result = <<>>

\* C10: spec resolution is two-pass.  For a query whose spec name and value
\* are both non-empty: if some eligible matching rule has a multi-spec card
\* with exactly the supplied spec, the result holds only such rules and no
\* generic card (all of them unless the read failed); otherwise the result
\* holds only rules with generic cards (all of them unless the read failed).
C10_TwoPass ==
    (query # <<>> /\ Truthy(query[1].sn) /\ Truthy(query[1].sv)) =>
        /\ ReturnedRules \subseteq (IF ExactRules # {} THEN ExactRules ELSE GenericRules)
        /\ ~query[1].err =>
              ReturnedRules = (IF ExactRules # {} THEN ExactRules ELSE GenericRules)
        /\ Len(result) = Cardinality(ReturnedRules)

\* a query found both a rule with the exact spec and a rule with a generic
\* card, and returned rules
C10_Witness ==
    /\ query # <<>>
    /\ ~query[1].err
    /\ Truthy(query[1].sn) /\ Truthy(query[1].sv)
    /\ ExactRules # {}
    /\ GenericRules # {}
    /\ result # <<>>

-----------------------------------------------------------------------------
(* The matcher's ranking, eligibility and matching predicate (SpecRank)      *)

\* k is a literal substring of t
IsSubstring(k, t) ==
    \E i \in 0..Len(t) : i + Len(k) <= Len(t) /\ SubSeq(t, i + 1, i + Len(k)) = k

\* the rank score as stated: length(keyword) when the keyword is contained in
\* the text, length(keyword)/2 (integer division, as in SQL) otherwise
StatedScore(t, k) == IF IsSubstring(k, t) THEN Len(k) ELSE Len(k) \div 2

\* C11: for two rules of the result where the first one's keyword is a
\* substring of the text and the second one matches only by reverse
\* containment (the text is a substring of its keyword, its keyword is not a
\* substring of the text), the first one appears before the second one.
C11_ForwardBeforeReverse ==
    query # <<>> =>
        \A m, n \in DOMAIN result :
            (/\ IsSubstring(result[m].keyword, query[1].kw)
             /\ IsSubstring(query[1].kw, result[n].keyword)
             /\ ~IsSubstring(result[n].keyword, query[1].kw))
            => m < n

\* C12: the returned list is sorted by the stated rank score, descending; in
\* particular for the rules "手机壳" and "手机" and the text "有手机壳吗" the rule
\* "手机壳" precedes "手机".
C12_SortedByScore ==
    query # <<>> =>
        \A m, n \in DOMAIN result :
            m < n => StatedScore(query[1].kw, result[m].keyword)
                        >= StatedScore(query[1].kw, result[n].keyword)

\* C13: every returned (rule, card) pair, for a query with or without spec,
\* has the rule enabled and its card present and enabled.
C13_OnlyEnabled ==
    query # <<>> =>
        \A n \in DOMAIN result :
            /\ result[n].id \in DOMAIN rules
            /\ rules[result[n].id].enabled
            /\ result[n].card_id = rules[result[n].id].card_id
            /\ result[n].card_id \in DOMAIN cards
            /\ cards[result[n].card_id].enabled

\* a query returned a rule while an enabled rule whose keyword is in the
\* text sat on a disabled card and was left out
C13_Witness ==
    /\ query # <<>>
    /\ ~query[1].err
    /\ result # <<>>
    /\ \E id \in DOMAIN rules :
          /\ rules[id].enabled
          /\ ~cards[rules[id].card_id].enabled
          /\ IsSubstring(rules[id].keyword, query[1].kw)
          /\ id \notin ReturnedRules

\* C14: when the catalog read succeeds, an enabled rule on an enabled card
\* is in the result if and only if its keyword is a literal substring of the
\* text or the text is a literal substring of its keyword.
C14_LiteralContainment ==
    (query # <<>> /\ ~query[1].err) =>
        \A id \in DOMAIN rules :
            (rules[id].enabled /\ cards[rules[id].card_id].enabled)
            => (id \in ReturnedRules <=>
                    \/ IsSubstring(rules[id].keyword, query[1].kw)
                    \/ IsSubstring(query[1].kw, rules[id].keyword))

-----------------------------------------------------------------------------
(* Properties of the event pipeline *)

Classified == event # <<>> /\ event[1].stage # "Unclassified"
PaidNoId == Classified /\ event[1].is_payment /\ event[1].order_id = PyNone

\* C15: fulfill is invoked only for an event whose verdict has is_payment
\* true and an order id; an event with is_payment true and no order id is
\* never Failed, changes neither the ledger, the stock nor a counter, and
\* ends Skipped.
C15_OnlyPaidWithId ==
    /\ [](calls > 0 => Classified /\ event[1].is_payment /\ event[1].order_id # PyNone)
    /\ [](PaidNoId => EventState \in {"PaymentDetected", "Skipped"} /\ calls = 0)
    /\ [][PaidNoId => UNCHANGED <<orders, cards, rules, popped, outcomes, handoffs>>]_vars
    /\ (PaidNoId ~> EventState = "Skipped")

C15_Witness ==
    /\ PaidNoId
    /\ EventState = "Skipped"
    /\ Events[event[1].ev].t = "dict"
    /\ Repr(Events[event[1].ev]) = Repr(E_PaidNoId)

\* the event being processed is the value e
EventIs(e) ==
    /\ event # <<>>
    /\ Events[event[1].ev].t = e.t
    /\ Repr(Events[event[1].ev]) = Repr(e)

\* the events whose only status text is a negative phrase
NegativeEvents ==
    <<E_Unpaid, E_Refund, E_TradeClosed, E_ChatUnpaid, E_ChatRefund, E_ChatClosed,
      WithOrderUrl(E_Unpaid), WithOrderUrl(E_Refund), WithOrderUrl(E_TradeClosed)>>

\* C16: no phrase of the chat keyword list or of the payment-indicator list
\* is a substring of a negative phrase, and an event whose only status text
\* is a negative phrase is classified as a payment by neither list.
C16_NegativeNeverPayment ==
    /\ \A n \in DOMAIN NegativePhrases :
          /\ \A k \in DOMAIN auto_delivery_keywords :
                ~IsSubstring(auto_delivery_keywords[k], NegativePhrases[n])
          /\ \A k \in DOMAIN payment_indicators :
                ~IsSubstring(payment_indicators[k], NegativePhrases[n])
    /\ (Classified /\ \E n \in DOMAIN NegativeEvents : EventIs(NegativeEvents[n])) =>
          /\ ~event[1].is_payment
          /\ ~event[1].chat_trigger
          /\ EventState = "Skipped"

C16_Witness ==
    /\ Classified
    /\ EventIs(E_Unpaid)
    /\ EventState = "Skipped"

\* the flattened event contains a phrase of the list
ContainsPhrase(phrases, e) ==
    \E k \in DOMAIN phrases : IsSubstring(phrases[k], safe_str(e))

\* C17: is_payment is true exactly when the flattened event contains a phrase
\* of payment_indicators (and the chat trigger exactly when it contains one
\* of auto_delivery_keywords), and the verdict of an event is the verdict of
\* the same event with an order-id-bearing field added.
C17_PaymentIffPhrase ==
    Classified =>
        /\ event[1].is_payment = ContainsPhrase(payment_indicators, Events[event[1].ev])
        /\ event[1].chat_trigger = ContainsPhrase(auto_delivery_keywords, Events[event[1].ev])
        /\ Events[event[1].ev].t = "dict" =>
              /\ extract_order_id(WithOrderUrl(Events[event[1].ev])) # PyNone
              /\ event[1].is_payment = detect_payment(WithOrderUrl(Events[event[1].ev]))

C17_Witness ==
    /\ Classified
    /\ EventIs(WithOrderUrl(E_PaidNoId))
    /\ event[1].is_payment
    /\ event[1].order_id # PyNone

\* the events that are no map of the expected shape
MalformedEvents ==
    <<E_Empty, E_BadJson, E_JsonList, E_JsonScalarCard, E_IntPayload, E_ScalarWhereDict,
      E_ListShaped, E_TopList, E_TopNone>>

\* C18: classify returns a verdict for every event shape, (false, None) for
\* an empty map, a list, a scalar where a map is expected and an unparseable
\* JSON payload; a matcher whose catalog read fails returns the empty list,
\* and the event then ends Skipped, not Failed.
C18_NeverRaises ==
    /\ Classified =>
          /\ event[1].is_payment \in BOOLEAN
          /\ event[1].order_id.t \in {"none", "str"}
          /\ (\E n \in DOMAIN MalformedEvents : EventIs(MalformedEvents[n])) =>
                ~event[1].is_payment /\ event[1].order_id = PyNone
    /\ (query # <<>> /\ query[1].err) =>
          /\ result = <<>>
          /\ event[1].cand = <<>>
          /\ EventState \in {"RuleMatched", "Skipped"}

C18_Witness ==
    /\ EventIs(E_TopList)
    /\ EventState = "Skipped"

Terminal == {"Fulfilled", "Skipped", "Failed"}

\* the position of a state in Unclassified -> PaymentDetected ->
\* OrderCorrelated -> RuleMatched -> {Fulfilled | Skipped | Failed}
StageRank(st) ==
    CASE st = "Unclassified" -> 0
      [] st = "PaymentDetected" -> 1
      [] st = "OrderCorrelated" -> 2
      [] st = "RuleMatched" -> 3
      [] OTHER -> 4

\* C19: the state of an event is one of the seven states; a step leaves it
\* alone, moves it to the next of Unclassified, PaymentDetected,
\* OrderCorrelated, RuleMatched, or ends it (Fulfilled and Failed only from
\* RuleMatched); a terminal state never changes; every event ends in one.
C19_StateMachine ==
    /\ [](EventState \in Terminal \cup
             {"Unclassified", "PaymentDetected", "OrderCorrelated", "RuleMatched"})
    /\ [][\/ EventState' = EventState
          \/ /\ EventState \notin Terminal
             /\ \/ StageRank(EventState') = StageRank(EventState) + 1
                \/ EventState' = "Skipped"
             /\ EventState' \in {"Fulfilled", "Failed"} => EventState = "RuleMatched"]_vars
    /\ <>(EventState \in Terminal)

C19_Witness ==
    /\ event # <<>>
    /\ event[1].stage = "RuleMatched"
    /\ EventState = "Fulfilled"

\* C20: no step decreases rule.delivery_times, and a step that changes it is
\* the return of a fulfill of that rule with Fulfilled; a fulfill returning
\* Skipped or Failed, a matcher query and update_delivery_rule leave it alone.
C20_CounterMonotonic ==
    [][\A r \in DOMAIN rules :
          /\ rules'[r].delivery_times >= rules[r].delivery_times
          /\ rules'[r].delivery_times # rules[r].delivery_times =>
                \E i \in Calls : /\ outcomes[i].state = "Running"
                                 /\ outcomes'[i].state = "Fulfilled"
                                 /\ outcomes'[i].rule = r]_vars

-----------------------------------------------------------------------------
(* Candidate selection (SpecFault) *)

\* C21: a fulfill with an empty candidate list for a key that is not in the
\* ledger returns Skipped("no-rule-match") and writes nothing, the step that
\* returns it leaves ledger, cards and rules alone; a fulfill with a
\* non-empty list works on its first pair only: the rule it records is the
\* head of the list, and no other rule or card changes while it runs.
C21_CandidateSelection ==
    /\ [](\A i \in Calls :
            /\ (Returned(i) /\ outcomes[i].cand = <<>> /\ ~outcomes[i].marked0)
                  => /\ outcomes[i].state = "Skipped"
                     /\ outcomes[i].reason = "no-rule-match"
                     /\ outcomes[i].writes = 0
                     /\ \A h \in handoffs : h.call # i
            /\ (Returned(i) /\ outcomes[i].rule # 0)
                  => outcomes[i].rule = Head(outcomes[i].cand))
    /\ [][\A p \in Procs :
            /\ (proc[p].pc # "idle" /\ proc[p].cand = <<>>)
                  => UNCHANGED <<orders, cards, rules, popped, handoffs>>
            /\ (proc[p].pc # "idle" /\ proc[p].cand # <<>>)
                  => \A r \in DOMAIN rules :
                        r # Head(proc[p].cand)
                        => /\ rules'[r] = rules[r]
                           /\ cards'[CardOf(r)] = cards[CardOf(r)]]_vars

\* C21 witness: a key was skipped for want of a rule, left unmarked, and a
\* later fulfill of the same key with the list <<2, 1>> ended Fulfilled with
\* the text card's content
C21_Witness ==
    /\ Len(outcomes) = 2
    /\ outcomes[1].key = outcomes[2].key
    /\ outcomes[1].cand = <<>> /\ ~outcomes[1].marked0
    /\ outcomes[1].state = "Skipped" /\ outcomes[1].reason = "no-rule-match"
    /\ outcomes[2].cand = <<2, 1>> /\ ~outcomes[2].marked0
    /\ outcomes[2].state = "Fulfilled" /\ outcomes[2].rule = 2
    /\ popped = {}

-----------------------------------------------------------------------------
(* Ties of the ranking (SpecRank) *)

\* C22: of two returned rules with the same rank score the one with the
\* smaller id comes first, for get_delivery_rules_by_keyword and for
\* get_delivery_rules_by_keyword_and_spec.
C22_TiesByRuleId ==
    (query # <<>> /\ ~query[1].err) =>
        \A m, n \in DOMAIN result :
            (/\ m < n
             /\ RankScore(query[1].kw, result[m].keyword)
                   = RankScore(query[1].kw, result[n].keyword))
            => result[m].id < result[n].id

-----------------------------------------------------------------------------
(* Order id extraction (SpecPipe) *)

\* the order id the structured card of the event yields, None without one
StructuredId(message) ==
    IF message.t # "dict" THEN None
    ELSE IF ~PyTruthy(content_json_str(Get(message, <<"1">>, PyDict(<<>>)))) THEN None
    ELSE extract_from_content(json_loads(content_json_str(Get(message, <<"1">>, PyDict(<<>>)))))

\* the order id the patterns yield over the flattened event
FallbackId(message) == extract_from_string(Repr(message))

\* both, for every inbound event
StructuredIds == [n \in DOMAIN Events |-> StructuredId(Events[n])]
FallbackIds == [n \in DOMAIN Events |-> FallbackId(Events[n])]

\* C23: the structured card is read first and the patterns over the flattened
\* event only when the card yields nothing; an id in the card's URL is the
\* one returned even if another field holds a different id a pattern matches.
C23_StructuredFirst ==
    (Classified /\ Events[event[1].ev].t = "dict") =>
        /\ StructuredIds[event[1].ev] # None =>
              event[1].order_id = PyStr(StructuredIds[event[1].ev][1])
        /\ StructuredIds[event[1].ev] = None =>
              event[1].order_id = IF FallbackIds[event[1].ev] = None THEN PyNone
                                  ELSE PyStr(FallbackIds[event[1].ev][1])

C23_Witness ==
    /\ Classified
    /\ EventIs(WithOrderUrl(E_MainCard))
    /\ FallbackIds[event[1].ev] = Some(DeliveredId)
    /\ event[1].order_id = PyStr(<<"4", "5", "0", "2", "0", "4", "8", "7", "9", "7">>)

\* the patterns of the fallback, in the order they are tried
FallbackPatterns == <<P_orderId, P_order_detail, P_id, P_bizOrderId>>

\* the leftmost match of 10 digits or more of every pattern in every event
PatternIds ==
    [n \in DOMAIN Events |->
        [k \in DOMAIN FallbackPatterns |->
            RegexDigits(Repr(Events[n]), FallbackPatterns[k], 10)]]

\* the patterns with a match in the event n
PatternHits(n) == {k \in DOMAIN FallbackPatterns : PatternIds[n][k] # None}

\* C24: when the card yields nothing the patterns are tried in the order
\* orderId, order_detail?id, "id", bizOrderId; the first pattern with a match
\* decides and its first occurrence is returned, wherever the ids stand in
\* the event.
C24_FallbackOrder ==
    (Classified /\ Events[event[1].ev].t = "dict" /\ StructuredIds[event[1].ev] = None) =>
        /\ LET hits == PatternHits(event[1].ev)
               k == CHOOSE h \in hits : \A g \in hits : h <= g
           IN  event[1].order_id =
                  IF hits = {} THEN PyNone ELSE PyStr(PatternIds[event[1].ev][k][1])
        /\ (EventIs(E_BizThenOrder) \/ EventIs(E_IdThenDetail)) =>
              event[1].order_id = PyStr(DeliveredId)
        /\ (EventIs(E_BizThenId) \/ EventIs(E_TwoOrderIds)) =>
              event[1].order_id = PyStr(<<"4", "5", "0", "2", "0", "4", "8", "7", "9", "7">>)

C24_Witness ==
    /\ Classified
    /\ EventIs(E_BizThenOrder)
    /\ PatternHits(event[1].ev) = {1, 4}
    /\ event[1].order_id = PyStr(DeliveredId)

\* C27: every order id the extraction returns is a string of decimal digits,
\* at least 10 of them, whichever path produced it.
C27_TenDigits ==
    (Classified /\ event[1].order_id.t = "str") =>
        /\ Len(event[1].order_id.v) >= 10
        /\ \A n \in DOMAIN event[1].order_id.v : event[1].order_id.v[n] \in Digits

-----------------------------------------------------------------------------
(* Delayed hand-offs (SpecDelay) *)

\* the hand-offs scheduled and not sent yet
PendingHandoffs == {h \in handoffs : h.delay > 0}

\* C25: when a hand-off of a card with a delay is scheduled, the ledger
\* entry, the stock pop and the deliveryTimes increment of its fulfill are
\* committed, and stay so until it is sent; while it is pending a fulfill can
\* always take its next step, a duplicate fulfill for the same key returns
\* Skipped("already-delivered") and a fulfill for another key proceeds.
C25_CommitBeforeHandoff ==
    /\ \A h \in handoffs :
          /\ KeyMarked(h.key)
          /\ cards[CardOf(outcomes[h.call].rule)].type = "data" =>
                \E l \in popped : l.call = h.call /\ l.line = h.content
    /\ \A r \in DOMAIN rules :
          rules[r].delivery_times >=
             Cardinality({h \in handoffs : outcomes[h.call].rule = r})
    /\ \A i \in Calls :
          (Returned(i) /\ \E h \in handoffs : h.call < i /\ h.key = outcomes[i].key)
             => /\ outcomes[i].state = "Skipped"
                /\ outcomes[i].reason = "already-delivered"
    /\ PendingHandoffs # {} =>
          /\ (\E p \in Procs : proc[p].pc # "idle") => ENABLED Step
          /\ calls < bound.calls => ENABLED Step

-----------------------------------------------------------------------------
(* Administration of tables and orders (SpecAdmin) *)

ArgColumns == {"item_id", "order_status", "cookie_id"}

\* a step of insert_or_update_order
UpsertStep == calls' # calls /\ query'[1].op = "insert_or_update"

\* every order id has at most one row
OneRowPerOrder(tbl) ==
    \A i, j \in DOMAIN tbl : tbl[i].order_id = tbl[j].order_id => i = j

\* the step leaves every order but the one named as it was, and of that one
\* the order id, the creation time and the columns whose argument is None
UpsertKeepsUnnamed ==
    LET args == query'[1].args
    IN  OrderRow(orders, args.order_id) # None =>
            /\ Len(orders') = Len(orders)
            /\ \A i \in DOMAIN orders :
                  /\ orders'[i].order_id = orders[i].order_id
                  /\ orders'[i].created_at = orders[i].created_at
                  /\ orders[i].order_id # args.order_id => orders'[i] = orders[i]
                  /\ \A c \in ArgColumns :
                        orders'[i][c] # orders[i][c] =>
                            /\ orders[i].order_id = args.order_id
                            /\ args[c] # Null
                            /\ orders'[i][c] = args[c]

\* a step that names a cookie which does not exist returns False and leaves
\* orders as it was
UpsertRejectsUnknownCookie ==
    (query'[1].args.cookie_id # Null /\ ~CookieExists(cookies, query'[1].args.cookie_id))
        => result' = FALSE /\ orders' = orders

\* C30 as stated: at most one row per order_id; a call on an existing order
\* changes only the columns whose argument is not None; a call naming a cookie
\* that does not exist returns False and leaves orders unchanged.
C30_OnlyNamedFieldsChange ==
    [][UpsertStep =>
          /\ OneRowPerOrder(orders')
          /\ UpsertKeepsUnnamed
          /\ \A i \in DOMAIN orders :
                OrderRow(orders, query'[1].args.order_id) # None
                   => orders'[i].updated_at = orders[i].updated_at
          /\ UpsertRejectsUnknownCookie]_vars

\* C30, amended: as stated, except that updated_at of the order is set to the
\* time of the call when the call changes the value of a column.
C30_NamedFieldsAndTimestamp ==
    [][UpsertStep =>
          /\ OneRowPerOrder(orders')
          /\ UpsertKeepsUnnamed
          /\ \A i \in DOMAIN orders :
                OrderRow(orders, query'[1].args.order_id) # None
                   => orders'[i].updated_at =
                         IF OrderFields(orders'[i]) = OrderFields(orders[i])
                         THEN orders[i].updated_at ELSE calls'
          /\ UpsertRejectsUnknownCookie]_vars

C30_Witness ==
    /\ query # <<>>
    /\ query[1].op = "insert_or_update"
    /\ query[1].args.cookie_id = Null
    /\ query[1].args.item_id = "i1"
    /\ result = TRUE
    /\ \E i \in DOMAIN orders :
          /\ orders[i].order_id = query[1].args.order_id
          /\ orders[i].cookie_id = "c1"
          /\ orders[i].item_id = "i1"
          /\ orders[i].updated_at > orders[i].created_at

-----------------------------------------------------------------------------
(* The delivery counter under concurrent increments (SpecCount) *)

\* C28: when the concurrent increment_delivery_times calls on a rule have
\* completed without error, delivery_times of the rule has grown by their
\* number: it equals the number of fulfills that ended Fulfilled through it.
C28_NoLostUpdate ==
    (\A p \in Procs : proc[p].pc = "idle") =>
        \A r \in DOMAIN rules :
            rules[r].delivery_times =
                Cardinality({i \in Calls : /\ outcomes[i].state = "Fulfilled"
                                           /\ outcomes[i].rule = r
                                           /\ outcomes[i].errs = 0})

-----------------------------------------------------------------------------
(* Conservation of stock (SpecStock) *)

\* the lines consume_batch_data has returned, in the order of the calls
ReturnedLines ==
    [n \in 1..Cardinality(popped) |->
        (CHOOSE e \in popped : PopsBefore(e.call) = n - 1).line]

\* C29: a call of consume_batch_data that returns a line removes the first
\* non-blank line, trimmed, and keeps the other non-blank lines in order; a
\* call that returns None (no such card, a card that is not of type data, no
\* non-blank line, an error at the commit) leaves the non-blank lines as they
\* were; the lines returned followed by the lines remaining are the non-blank
\* trimmed lines of the original stock.
C29_StockConserved ==
    /\ [](ReturnedLines \o NonBlankLines(cards[1].data_content) = Orig)
    /\ [][calls' # calls =>
            IF result' = None
            THEN /\ popped' = popped
                 /\ \A c \in DOMAIN cards :
                       NonBlankLines(cards'[c].data_content)
                          = NonBlankLines(cards[c].data_content)
            ELSE /\ query'[1].card_id = 1
                 /\ <<result'[1]>> \o NonBlankLines(cards'[1].data_content)
                       = NonBlankLines(cards[1].data_content)
                 /\ cards'[2] = cards[2]]_vars

\* the stock " A \n\nB\n" gave "A"; the call for the text card returned None
C29_Witness ==
    /\ bound.stock0 = Some(<<SP, "A", SP, NL, NL, "B", NL>>)
    /\ ReturnedLines = <<<<"A">>>>
    /\ cards[1].data_content = Some(<<"B">>)
    /\ query # <<>>
    /\ query[1].card_id = 2
    /\ result = None

====
